---- MODULE Spec2Model ----
(***************************************************************************)
(* ParaForge: the level data model (parabox/types.ts), the editor state    *)
(* and its path-addressed copy-on-write mutation and undo/redo history     *)
(* (editor/editorState.ts), and the editor's event handlers                *)
(* (editor/LevelEditor.tsx).                                               *)
(*                                                                         *)
(* Conventions.  A JS array is the function from (JS index + 1) to its     *)
(* elements, so a dense array is a TLA+ sequence; paths and hit indices    *)
(* keep their JS (0-based) values.  A JS string is a sequence of           *)
(* one-character strings; a character outside the strings of TLA+ is the   *)
(* name of its code point ("U+2028").  A JS property that is absent,       *)
(* undefined or null                                                       *)
(* is a record field that is absent; a null or undefined result is the     *)
(* record Null or Undefined.  A float is an integer count of               *)
(* 10^-FracDigits; viewport.zoom is a count of 1/ZoomUnit.                 *)
(***************************************************************************)
EXTENDS Integers, Sequences, FiniteSets, TLC

VARIABLES
  state,  \* the editor's React state, an EditorState
  call,   \* one call of an exported function: its arguments, then its result;
          \* for the editor with its renders, the last render of LevelEditor
  heap,   \* the Level and Block objects of the editor, by reference
  dragRef \* dragRef.current of the editor: the pan that a mouse down began

vars == <<state, call, heap, dragRef>>

(***************************************************************************)
(* Bounds of the model.                                                    *)
(***************************************************************************)
\* Committing edits stop when history.past holds this many Levels.
MaxHistory == 2
\* The longest run of committing edits that is followed by as many undos.
MaxEdits == 2
\* The longest path handed to getBlockByPath and setBlockAtPath, and the
\* largest index in it.
MaxPathLen == 3
MaxIndex == 2
\* Decimal digits kept of a float, at least 6.  TLC's integers are 32 bits
\* wide, so the floats modelled lie within 2^31 / 10^FracDigits of zero.
FracDigits == 7

Null == [kind |-> "null"]
Undefined == [kind |-> "undefined"]

RECURSIVE Pow10(_)
Pow10(n) == IF n = 0 THEN 1 ELSE 10 * Pow10(n - 1)

\* The float 1.0 in model units.
Unit == Pow10(FracDigits)

\* The float tenths/10.
Tenths(tenths) == (tenths * Unit) \div 10

(***************************************************************************)
(* JS arrays.                                                              *)
(***************************************************************************)
\* arr[i]: the element, or undefined when i is no key of the array.
At(arr, i) == IF (i + 1) \in DOMAIN arr THEN arr[i + 1] ELSE Undefined

\* arr[i] = v.  In range it replaces the element, at i = length it appends,
\* beyond the length it leaves holes below i, and for a negative i it sets a
\* property that is no element.
ArrayStore(arr, i, v) ==
  IF (i + 1) \in 1..Len(arr) THEN [arr EXCEPT ![i + 1] = v]
  ELSE IF i = Len(arr) THEN Append(arr, v)
  ELSE [k \in (DOMAIN arr) \cup {i + 1} |-> IF k = i + 1 THEN v ELSE arr[k]]

\* arr.filter(keep) for a dense array; Keep is a set of kept positions.
RECURSIVE FilterFrom(_, _, _)
FilterFrom(arr, Keep, k) ==
  IF k > Len(arr) THEN <<>>
  ELSE IF k \in Keep THEN <<arr[k]>> \o FilterFrom(arr, Keep, k + 1)
  ELSE FilterFrom(arr, Keep, k + 1)

\* arr.splice(idx, 1) for 0 <= idx < length.
Splice1(arr, idx) == SubSeq(arr, 1, idx) \o SubSeq(arr, idx + 2, Len(arr))

(***************************************************************************)
(* parabox/types.ts                                                        *)
(***************************************************************************)
createEmptyLevel ==
  [header |-> [version |-> 4, unknown |-> <<>>],
   roots |-> << [kind |-> "Block", x |-> -1, y |-> -1, id |-> 0,
                 width |-> 9, height |-> 9,
                 hue |-> Tenths(6), sat |-> Tenths(8), val |-> Unit,
                 zoomfactor |-> Unit, fillwithwalls |-> 0, player |-> 0,
                 possessable |-> 0, playerorder |-> 0, fliph |-> 0,
                 floatinspace |-> 0, specialeffect |-> 0,
                 children |-> <<>>] >>]

(***************************************************************************)
(* JS strings and numbers, as parabox/format.ts uses them.                 *)
(***************************************************************************)
\* What \s, trim() and trimEnd() take for white space.  A character that a
\* string of this module cannot hold is the one-element string of its code
\* point's name: <<"U+2028">> is the text "\u2028".
WhiteSpace ==
  {" ", "\t", "\n", "\r", "\f", "", " ",
   "U+1680", "U+2000", "U+2001", "U+2002", "U+2003", "U+2004", "U+2005",
   "U+2006", "U+2007", "U+2008", "U+2009", "U+200A", "U+2028", "U+2029",
   "U+202F", "U+205F", "U+3000", "U+FEFF"}

\* The characters that "." of a regular expression does not match.
LineTerminators == {"\n", "\r", "U+2028", "U+2029"}

Digits == <<"0", "1", "2", "3", "4", "5", "6", "7", "8", "9">>
DigitSet == {Digits[k] : k \in 1..10}
DigitVal(c) == (CHOOSE k \in 1..10 : Digits[k] = c) - 1

\* The first position k >= from with (str[k] \in S) = member, or Len(str) + 1.
RECURSIVE ScanTo(_, _, _, _)
ScanTo(str, k, S, member) ==
  IF k > Len(str) THEN k
  ELSE IF (str[k] \in S) = member THEN k
  ELSE ScanTo(str, k + 1, S, member)

\* The last position k <= from with str[k] \notin S, or 0.
RECURSIVE ScanBack(_, _, _)
ScanBack(str, k, S) ==
  IF k < 1 THEN 0
  ELSE IF str[k] \notin S THEN k
  ELSE ScanBack(str, k - 1, S)

\* str.replace(/[S]+$/, ''), and str.trimEnd() for S = WhiteSpace.
StripEnd(str, S) == SubSeq(str, 1, ScanBack(str, Len(str), S))

\* str.trim().
Trim(str) ==
  SubSeq(str, ScanTo(str, 1, WhiteSpace, FALSE),
         ScanBack(str, Len(str), WhiteSpace))

\* The non-empty pieces of str.split(/\s+/) from position k on: for a string
\* that is not blank, str.trim().split(/\s+/).
RECURSIVE TokensFrom(_, _)
TokensFrom(str, k) ==
  LET b == ScanTo(str, k, WhiteSpace, FALSE)
      e == ScanTo(str, b, WhiteSpace, TRUE)
  IN IF b > Len(str) THEN <<>>
     ELSE <<SubSeq(str, b, e - 1)>> \o TokensFrom(str, e)

\* parts.slice(from).join(sep), from a JS index.
RECURSIVE JoinFrom(_, _, _)
JoinFrom(parts, from, sep) ==
  IF from + 1 > Len(parts) THEN <<>>
  ELSE IF from + 1 = Len(parts) THEN parts[from + 1]
  ELSE parts[from + 1] \o sep \o JoinFrom(parts, from + 1, sep)

\* str.replace(/a/g, b) for single characters.
ReplaceChar(str, a, b) == [k \in 1..Len(str) |-> IF str[k] = a THEN b ELSE str[k]]

\* text.replace(/\r\n/g, '\n').replace(/\r/g, '\n').split('\n').
RECURSIVE SplitLines(_, _)
SplitLines(text, k) ==
  LET e == ScanTo(text, k, {"\n", "\r"}, TRUE)
  IN IF e > Len(text) THEN <<SubSeq(text, k, Len(text))>>
     ELSE <<SubSeq(text, k, e - 1)>>
          \o SplitLines(text,
               IF text[e] = "\r" /\ e < Len(text) /\ text[e + 1] = "\n"
               THEN e + 2 ELSE e + 1)

RECURSIVE NatToStr(_)
NatToStr(n) ==
  IF n < 10 THEN <<Digits[n + 1]>>
  ELSE NatToStr(n \div 10) \o <<Digits[(n % 10) + 1]>>

\* String(n) of an integer n.
IntToStr(n) == IF n < 0 THEN <<"-">> \o NatToStr(-n) ELSE NatToStr(n)

\* The value of a run of digits str[from..to], and 0 of an empty run.
RECURSIVE DigitsVal(_, _, _)
DigitsVal(str, from, to) ==
  IF to < from THEN 0
  ELSE 10 * DigitsVal(str, from, to - 1) + DigitVal(str[to])

NaN == [finite |-> FALSE]
Finite(v) == [finite |-> TRUE, v |-> v]

\* m * 10^e in model units, cut toward zero below one unit.
Scale10(m, e) ==
  IF e >= 0 THEN m * Pow10(e) ELSE m \div Pow10(-e)

\* tokens[i], a string or undefined: <<the string>>, or <<>> for undefined.
Arg(tokens, i) == IF (i + 1) \in DOMAIN tokens THEN <<tokens[i + 1]>> ELSE <<>>

\* The value of a decimal literal whose parts are found: a sign before s,
\* integer digits s..ie-1, fraction digits fs..fe-1, and with hasExp an
\* exponent of digits xs..xe-1, negative with xneg.  A literal that has no
\* digit, that has an exponent mark and no exponent digit, or that does not
\* end at xe is not a number.  Digits below one unit are cut.
DecimalValue(token, s, ie, fs, fe, hasExp, xneg, xs, xe) ==
  LET nFrac == fe - fs
      exp == IF hasExp
             THEN (IF xneg THEN -1 ELSE 1) * DigitsVal(token, xs, xe - 1)
             ELSE 0
      mant == DigitsVal(token, s, ie - 1) * Pow10(nFrac)
              + DigitsVal(token, fs, fe - 1)
  IN IF /\ (ie - s) + nFrac >= 1
        /\ xe = Len(token) + 1
        /\ hasExp => xe > xs
     THEN Finite((IF token[1] = "-" THEN -1 ELSE 1)
                 * Scale10(mant, FracDigits - nFrac + exp))
     ELSE NaN

\* The exponent part, from its first digit xs on.
ExponentPart(token, s, ie, fs, fe, hasExp, xneg, xs) ==
  DecimalValue(token, s, ie, fs, fe, hasExp, xneg, xs,
               IF hasExp THEN ScanTo(token, xs, DigitSet, FALSE) ELSE fe)

\* The exponent mark and sign, at fe where the fraction digits end.
ExponentMark(token, s, ie, fs, fe, hasExp) ==
  ExponentPart(token, s, ie, fs, fe, hasExp,
               hasExp /\ fe + 1 <= Len(token) /\ token[fe + 1] = "-",
               IF hasExp /\ fe + 1 <= Len(token)
                         /\ token[fe + 1] \in {"+", "-"}
               THEN fe + 2 ELSE fe + 1)

\* The fraction digits from fs on.
FractionPart(token, s, ie, fs) ==
  LET fe == ScanTo(token, fs, DigitSet, FALSE)
  IN ExponentMark(token, s, ie, fs, fe,
                  fe <= Len(token) /\ token[fe] \in {"e", "E"})

\* The integer digits from s on, and the point after them.
IntegerPart(token, s) ==
  LET ie == ScanTo(token, s, DigitSet, FALSE)
  IN FractionPart(token, s, ie,
                  IF ie <= Len(token) /\ token[ie] = "." THEN ie + 1 ELSE ie)

\* The digits of the literals 0x.., 0o.. and 0b.., in lower and upper case.
RadixDigits ==
  <<"0", "1", "2", "3", "4", "5", "6", "7", "8", "9",
    "a", "b", "c", "d", "e", "f">>
UpperDigits ==
  <<"0", "1", "2", "3", "4", "5", "6", "7", "8", "9",
    "A", "B", "C", "D", "E", "F">>
IsRadixDigit(c, base) ==
  \E k \in 1..base : RadixDigits[k] = c \/ UpperDigits[k] = c
RadixDigitVal(c) ==
  (CHOOSE k \in 1..16 : RadixDigits[k] = c \/ UpperDigits[k] = c) - 1

\* The value of the digits str[from..to] in the base, and 0 of an empty run.
RECURSIVE RadixVal(_, _, _, _)
RadixVal(str, from, to, base) ==
  IF to < from THEN 0
  ELSE base * RadixVal(str, from, to - 1, base) + RadixDigitVal(str[to])

\* The base that the first two characters of a token announce, or 0.
Radix(token) ==
  IF Len(token) < 2 \/ token[1] # "0" THEN 0
  ELSE IF token[2] \in {"x", "X"} THEN 16
  ELSE IF token[2] \in {"o", "O"} THEN 8
  ELSE IF token[2] \in {"b", "B"} THEN 2
  ELSE 0

\* The value of a literal 0x.., 0o.. or 0b..: it takes no sign, and needs a
\* digit of its base and nothing else after the prefix.
RadixValue(token, base) ==
  IF /\ Len(token) >= 3
     /\ \A k \in 3..Len(token) : IsRadixDigit(token[k], base)
  THEN Finite(RadixVal(token, 3, Len(token), base) * Unit)
  ELSE NaN

\* Number of a text without white space around it: the empty text is 0; a
\* literal with a base prefix is its value; a decimal literal with an
\* optional sign, fraction and exponent is its value in model units;
\* Infinity and every other text are not finite.
NumberOf(token) ==
  IF token = <<>> THEN Finite(0)
  ELSE IF Radix(token) # 0 THEN RadixValue(token, Radix(token))
  ELSE IntegerPart(token,
         IF token[1] \in {"+", "-"} THEN 2 ELSE 1)

\* Number(arg): the white space around a text does not count, and
\* Number(undefined) is NaN.
Number(arg) ==
  IF arg = <<>> THEN NaN
  ELSE NumberOf(Trim(arg[1]))

\* Math.trunc of a float, as an integer.
Trunc(v) == IF v >= 0 THEN v \div Unit ELSE -((-v) \div Unit)

\* n digits of the natural number v, zero-padded on the left.
RECURSIVE PadNat(_, _)
PadNat(v, n) ==
  IF n = 0 THEN <<>> ELSE PadNat(v \div 10, n - 1) \o <<Digits[(v % 10) + 1]>>

\* Whether String(n) of the float v is in exponent notation: 0 < |n| < 1e-6.
\* (|n| >= 1e21 is beyond the floats modelled.)
HasExponent(v) ==
  LET a == IF v < 0 THEN -v ELSE v
  IN a # 0 /\ a < Unit \div Pow10(6)

\* The decimal text of the float v: its integer part, and its fraction
\* without trailing zeros when it has one.
DecimalText(v) ==
  LET a == IF v < 0 THEN -v ELSE v
      frac == StripEnd(PadNat(a % Unit, FracDigits), {"0"})
  IN (IF v < 0 THEN <<"-">> ELSE <<>>)
     \o NatToStr(a \div Unit)
     \o (IF frac = <<>> THEN <<>> ELSE <<".">> \o frac)

\* The m for which the double nearest to a units, a > 0, is M / 2^m with
\* 2^52 <= M < 2^53: 52 less the binary exponent of a / Unit.
RECURSIVE BinaryShift(_, _)
BinaryShift(a, m) ==
  IF 8 * a < Unit THEN BinaryShift(8 * a, m + 3)
  ELSE IF a < Unit THEN BinaryShift(2 * a, m + 1)
  ELSE IF a \div 2 >= Unit THEN BinaryShift(a \div 2, m - 1)
  ELSE m

\* (r * 2^n) % (2 * Unit).
RECURSIVE Doubled(_, _)
Doubled(r, n) ==
  IF n = 0 THEN r
  ELSE IF n >= 3 THEN Doubled((8 * r) % (2 * Unit), n - 3)
  ELSE Doubled((2 * r) % (2 * Unit), n - 1)

\* Whether the double nearest to a units, a > 0, is at or above a / Unit:
\* a * 2^m / Unit is rounded to the integer M, to the even one from a half.
AtOrAbove(a) ==
  LET R == Doubled(a % (2 * Unit), BinaryShift(a, 52))
      r == R % Unit
  IN r = 0 \/ 2 * r > Unit \/ (2 * r = Unit /\ R >= Unit)

\* n.toFixed(6) of the float v: the multiple of 1e-6 nearest to the double,
\* the one further from zero when the double is halfway, with six fraction
\* digits and the sign of v.
ToFixed6(v) ==
  LET a == IF v < 0 THEN -v ELSE v
      step == Unit \div Pow10(6)
      up == \/ 2 * (a % step) > step
            \/ 2 * (a % step) = step /\ AtOrAbove(a)
      q == IF up THEN (a \div step) + 1 ELSE a \div step
  IN (IF v < 0 THEN <<"-">> ELSE <<>>)
     \o NatToStr(q \div Pow10(6)) \o <<".">> \o PadNat(q % Pow10(6), 6)

(***************************************************************************)
(* parabox/format.ts                                                       *)
(***************************************************************************)
ParseError(message, line) == [line |-> line, message |-> message]

toInt(token, fallback) ==
  IF token = <<>> THEN fallback
  ELSE LET n == Number(token)
       IN IF n.finite THEN Trunc(n.v) ELSE fallback

toFloat(token, fallback) ==
  IF token = <<>> THEN fallback
  ELSE LET n == Number(token)
       IN IF n.finite THEN n.v ELSE fallback

toBool01(token) ==
  LET n == toInt(token, 0)
  IN IF n = 1 THEN 1 ELSE 0

\* r.f = v on a JS object.
SetField(r, f, v) == (f :> v) @@ r

parseFloorType(raw) ==
  LET tokens == TokensFrom(raw, 1)
      head == tokens[1]
  IN IF Len(tokens) = 0 THEN [kind |-> "Unknown", raw |-> <<>>]
     ELSE IF head = <<"B", "u", "t", "t", "o", "n">> THEN [kind |-> "Button"]
     ELSE IF head = <<"P", "l", "a", "y", "e", "r", "B", "u", "t", "t", "o", "n">> THEN [kind |-> "PlayerButton"]
     ELSE IF head = <<"B", "r", "e", "a", "k">> THEN [kind |-> "Break"]
     ELSE IF head = <<"F", "a", "s", "t", "T", "r", "a", "v", "e", "l">> THEN [kind |-> "FastTravel"]
     ELSE IF head = <<"G", "a", "l", "l", "e", "r", "y">> THEN [kind |-> "Gallery"]
     ELSE IF head = <<"D", "e", "m", "o", "E", "n", "d">> THEN [kind |-> "DemoEnd"]
     ELSE IF head = <<"P", "o", "r", "t", "a", "l">>
     THEN [kind |-> "Portal", sceneName |-> JoinFrom(tokens, 1, <<" ">>)]
     ELSE IF head = <<"I", "n", "f", "o">>
     THEN [kind |-> "Info",
           text |-> ReplaceChar(JoinFrom(tokens, 1, <<" ">>), "_", " ")]
     ELSE [kind |-> "Unknown", raw |-> raw]

\* parseObject: [ok |-> TRUE, obj |-> the object] or [ok |-> FALSE, error].
parseObject(kind, args, line) ==
  IF kind = <<"B", "l", "o", "c", "k">>
  THEN [ok |-> TRUE, obj |->
         [kind |-> "Block",
          x |-> toInt(Arg(args, 0), 0),
          y |-> toInt(Arg(args, 1), 0),
          id |-> toInt(Arg(args, 2), 0),
          width |-> toInt(Arg(args, 3), 1),
          height |-> toInt(Arg(args, 4), 1),
          hue |-> toFloat(Arg(args, 5), Tenths(6)),
          sat |-> toFloat(Arg(args, 6), Tenths(8)),
          val |-> toFloat(Arg(args, 7), Unit),
          zoomfactor |-> toFloat(Arg(args, 8), Unit),
          fillwithwalls |-> toBool01(Arg(args, 9)),
          player |-> toBool01(Arg(args, 10)),
          possessable |-> toBool01(Arg(args, 11)),
          playerorder |-> toInt(Arg(args, 12), 0),
          fliph |-> toBool01(Arg(args, 13)),
          floatinspace |-> toBool01(Arg(args, 14)),
          specialeffect |-> toInt(Arg(args, 15), 0),
          children |-> <<>>]]
  ELSE IF kind = <<"R", "e", "f">>
  THEN [ok |-> TRUE, obj |->
         [kind |-> "Ref",
          x |-> toInt(Arg(args, 0), 0),
          y |-> toInt(Arg(args, 1), 0),
          id |-> toInt(Arg(args, 2), 0),
          exitblock |-> toBool01(Arg(args, 3)),
          infexit |-> toBool01(Arg(args, 4)),
          infexitnum |-> toInt(Arg(args, 5), 0),
          infenter |-> toBool01(Arg(args, 6)),
          infenternum |-> toInt(Arg(args, 7), 0),
          infenterid |-> toInt(Arg(args, 8), -1),
          player |-> toBool01(Arg(args, 9)),
          possessable |-> toBool01(Arg(args, 10)),
          playerorder |-> toInt(Arg(args, 11), 0),
          fliph |-> toBool01(Arg(args, 12)),
          floatinspace |-> toBool01(Arg(args, 13)),
          specialeffect |-> toInt(Arg(args, 14), 0)]]
  ELSE IF kind = <<"W", "a", "l", "l">>
  THEN [ok |-> TRUE, obj |->
         [kind |-> "Wall",
          x |-> toInt(Arg(args, 0), 0),
          y |-> toInt(Arg(args, 1), 0),
          player |-> toBool01(Arg(args, 2)),
          possessable |-> toBool01(Arg(args, 3)),
          playerorder |-> toInt(Arg(args, 4), 0)]]
  ELSE IF kind = <<"F", "l", "o", "o", "r">>
  THEN [ok |-> TRUE, obj |->
         [kind |-> "Floor",
          x |-> toInt(Arg(args, 0), 0),
          y |-> toInt(Arg(args, 1), 0),
          type |-> parseFloorType(JoinFrom(args, 2, <<" ">>))]]
  ELSE [ok |-> FALSE,
        error |-> SetField(ParseError("Unknown object kind", line),
                           "kind", kind)]

\* The header loop of parseLevel from line i (a JS index):
\* [ok |-> TRUE, i, header], or [ok |-> FALSE, error].
RECURSIVE headerLoop(_, _, _)
headerLoop(lines, i, header) ==
  IF i >= Len(lines) THEN [ok |-> TRUE, i |-> i, header |-> header]
  ELSE
  LET line == lines[i + 1]
      tokens == TokensFrom(line, 1)
      key == tokens[1]
  IN IF Trim(line) = <<>> THEN headerLoop(lines, i + 1, header)
     ELSE IF Trim(line) = <<"#">>
     THEN [ok |-> TRUE, i |-> i + 1, header |-> header]
     ELSE IF key = <<"v", "e", "r", "s", "i", "o", "n">>
     THEN LET v == Number(Arg(tokens, 1))
          IN IF ~v.finite
             THEN [ok |-> FALSE, error |-> ParseError("Invalid version", i + 1)]
             ELSE headerLoop(lines, i + 1,
                             [header EXCEPT !.version = Trunc(v.v)])
     ELSE IF key = <<"a", "t", "t", "e", "m", "p", "t", "_", "o", "r", "d", "e", "r">>
     THEN headerLoop(lines, i + 1,
            SetField(header, "attempt_order", JoinFrom(tokens, 1, <<" ">>)))
     ELSE IF key = <<"s", "h", "e", "d">>
     THEN headerLoop(lines, i + 1, SetField(header, "shed", TRUE))
     ELSE IF key = <<"i", "n", "n", "e", "r", "_", "p", "u", "s", "h">>
     THEN headerLoop(lines, i + 1, SetField(header, "inner_push", TRUE))
     ELSE IF key = <<"d", "r", "a", "w", "_", "s", "t", "y", "l", "e">>
     THEN LET style == Arg(tokens, 1)
          IN IF style \in {<< <<"t", "u", "i">> >>, << <<"g", "r", "i", "d">> >>,
                          << <<"o", "l", "d", "s", "t", "y", "l", "e">> >>}
             THEN headerLoop(lines, i + 1,
                             SetField(header, "draw_style", style[1]))
             ELSE headerLoop(lines, i + 1,
                    [header EXCEPT !.unknown = Append(@, line)])
     ELSE IF key = <<"c", "u", "s", "t", "o", "m", "_", "l", "e", "v", "e", "l", "_", "m", "u", "s", "i", "c">>
     THEN headerLoop(lines, i + 1,
            SetField(header, "custom_level_music", toInt(Arg(tokens, 1), -1)))
     ELSE IF key = <<"c", "u", "s", "t", "o", "m", "_", "l", "e", "v", "e", "l", "_", "p", "a", "l", "e", "t", "t", "e">>
     THEN headerLoop(lines, i + 1,
            SetField(header, "custom_level_palette",
                     toInt(Arg(tokens, 1), -1)))
     ELSE headerLoop(lines, i + 1,
            [header EXCEPT !.unknown = Append(@, line)])

\* The Block that the depth stack ends in.  The stack holds, per open depth,
\* the JS index of the open Block among its parent's children (among roots at
\* depth 0): an open Block is the last Block pushed at its depth.
RECURSIVE openBlock(_, _, _)
openBlock(b, stack, i) ==
  IF i > Len(stack) THEN b ELSE openBlock(b.children[stack[i] + 1], stack, i + 1)

\* parent.children.push(obj) for the Block the stack ends in, below b.
RECURSIVE pushBelow(_, _, _, _)
pushBelow(b, stack, i, obj) ==
  IF i > Len(stack) THEN [b EXCEPT !.children = Append(@, obj)]
  ELSE [b EXCEPT !.children[stack[i] + 1] = pushBelow(@, stack, i + 1, obj)]

\* The body loop of parseLevel from line i (a JS index):
\* [ok |-> TRUE, roots], or [ok |-> FALSE, error].
RECURSIVE bodyLoop(_, _, _, _)

\* The end of an iteration: the object parsed from line i goes below the
\* Block that the stack ends in, or among the roots.
placeObject(lines, i, roots, stack, parsed) ==
  IF ~parsed.ok THEN parsed
  ELSE IF parsed.obj.kind = "Block"
  THEN IF Len(stack) > 0
       THEN bodyLoop(lines, i + 1,
              [roots EXCEPT ![stack[1] + 1] =
                 pushBelow(@, stack, 2, parsed.obj)],
              Append(stack,
                     Len(openBlock(roots[stack[1] + 1], stack, 2).children)))
       ELSE bodyLoop(lines, i + 1, Append(roots, parsed.obj),
                     Append(stack, Len(roots)))
  ELSE IF Len(stack) = 0
  THEN [ok |-> FALSE,
        error |-> SetField(ParseError("must be inside a Block", i + 1),
                           "kind", parsed.obj.kind)]
  ELSE bodyLoop(lines, i + 1,
         [roots EXCEPT ![stack[1] + 1] = pushBelow(@, stack, 2, parsed.obj)],
         stack)

\* An iteration from its tokens on, with the stack cut to the line's depth.
contentLine(lines, i, roots, stack, depth, tokens) ==
  IF depth > Len(stack)
  THEN [ok |-> FALSE,
        error |-> ParseError(
          "Invalid indentation (no parent block at that depth)", i + 1)]
  ELSE placeObject(lines, i, roots, stack,
         parseObject(tokens[1], SubSeq(tokens, 2, Len(tokens)), i + 1))

\* raw.match(/^(\t*)(.*)$/) is null: "." matches no line terminator, and the
\* expression has no m flag, so a line that holds one does not match.
NoMatch(raw) == \E k \in 1..Len(raw) : raw[k] \in LineTerminators

\* An iteration for a line that is not blank, with `depth` leading tabs.
indentedLine(lines, i, roots, stack, depth) ==
  LET content == Trim(SubSeq(lines[i + 1], depth + 1, Len(lines[i + 1])))
  IN IF NoMatch(lines[i + 1]) THEN bodyLoop(lines, i + 1, roots, stack)
     ELSE IF content = <<>> THEN bodyLoop(lines, i + 1, roots, stack)
     ELSE contentLine(lines, i, roots,
            IF Len(stack) > depth THEN SubSeq(stack, 1, depth) ELSE stack,
            depth, TokensFrom(content, 1))

\* A body loop in which a blank line closes the open Blocks.
bodyLoopBlankCloses(lines, i, roots, stack) ==
  IF i >= Len(lines) THEN [ok |-> TRUE, roots |-> roots]
  ELSE IF Trim(lines[i + 1]) = <<>> THEN bodyLoop(lines, i + 1, roots, <<>>)
  ELSE indentedLine(lines, i, roots, stack,
                    ScanTo(lines[i + 1], 1, {"\t"}, FALSE) - 1)

bodyLoop(lines, i, roots, stack) ==
  IF i >= Len(lines) THEN [ok |-> TRUE, roots |-> roots]
  ELSE IF Trim(lines[i + 1]) = <<>> THEN bodyLoop(lines, i + 1, roots, stack)
  ELSE indentedLine(lines, i, roots, stack,
                    ScanTo(lines[i + 1], 1, {"\t"}, FALSE) - 1)

\* The end of parseLevel, with the results of its two loops.
levelOf(lines, head, body) ==
  IF ~body.ok THEN body
  ELSE IF Len(body.roots) = 0
  THEN [ok |-> FALSE,
        error |-> ParseError("No root Block found", Len(lines))]
  ELSE [ok |-> TRUE,
        level |-> [header |-> head.header, roots |-> body.roots]]

\* parseLevel after its header loop.
parseBody(lines, head) ==
  IF ~head.ok THEN head
  ELSE levelOf(lines, head, bodyLoop(lines, head.i, <<>>, <<>>))

\* parseLevel of the lines, trailing blanks and tabs stripped.
parseLines(lines) ==
  parseBody(lines, headerLoop(lines, 0, [version |-> 4, unknown |-> <<>>]))

\* The lines of parseLevel from the raw lines of the text.
stripLines(rawLines) ==
  [k \in 1..Len(rawLines) |-> StripEnd(rawLines[k], {" ", "\t"})]

\* parseLevel: [ok |-> TRUE, level], or [ok |-> FALSE, error] for a thrown
\* ParseError.
parseLevel(text) == parseLines(stripLines(SplitLines(text, 1)))

\* fmt of a float; every float of the model is finite.
fmt(n) ==
  IF HasExponent(n)
  THEN LET z == StripEnd(ToFixed6(n), {"0"})
       IN IF Len(z) >= 1 /\ z[Len(z)] = "." THEN SubSeq(z, 1, Len(z) - 1)
          ELSE z
  ELSE DecimalText(n)

formatFloorType(floor) ==
  LET t == floor.type
  IN IF t.kind = "Button" THEN <<"B", "u", "t", "t", "o", "n">>
     ELSE IF t.kind = "PlayerButton" THEN <<"P", "l", "a", "y", "e", "r", "B", "u", "t", "t", "o", "n">>
     ELSE IF t.kind = "Portal"
     THEN StripEnd(<<"P", "o", "r", "t", "a", "l", " ">> \o t.sceneName, WhiteSpace)
     ELSE IF t.kind = "Info"
     THEN StripEnd(<<"I", "n", "f", "o", " ">> \o ReplaceChar(t.text, " ", "_"), WhiteSpace)
     ELSE IF t.kind = "Break" THEN <<"B", "r", "e", "a", "k">>
     ELSE IF t.kind = "FastTravel" THEN <<"F", "a", "s", "t", "T", "r", "a", "v", "e", "l">>
     ELSE IF t.kind = "Gallery" THEN <<"G", "a", "l", "l", "e", "r", "y">>
     ELSE IF t.kind = "DemoEnd" THEN <<"D", "e", "m", "o", "E", "n", "d">>
     ELSE t.raw

\* '\t'.repeat(depth).
Indent(depth) == [k \in 1..depth |-> "\t"]

\* The lines emitObj pushes for obj at depth.
RECURSIVE emitObj(_, _)
RECURSIVE emitSeq(_, _, _)
emitObj(obj, depth) ==
  IF obj.kind = "Block"
  THEN << Indent(depth) \o <<"B", "l", "o", "c", "k">> \o JoinFrom(
            << <<>>, IntToStr(obj.x), IntToStr(obj.y), IntToStr(obj.id),
               IntToStr(obj.width), IntToStr(obj.height), fmt(obj.hue),
               fmt(obj.sat), fmt(obj.val), fmt(obj.zoomfactor),
               IntToStr(obj.fillwithwalls), IntToStr(obj.player),
               IntToStr(obj.possessable), IntToStr(obj.playerorder),
               IntToStr(obj.fliph), IntToStr(obj.floatinspace),
               IntToStr(obj.specialeffect) >>, 0, <<" ">>) >>
       \o emitSeq(obj.children, 1, depth + 1)
  ELSE IF obj.kind = "Ref"
  THEN << Indent(depth) \o <<"R", "e", "f">> \o JoinFrom(
            << <<>>, IntToStr(obj.x), IntToStr(obj.y), IntToStr(obj.id),
               IntToStr(obj.exitblock), IntToStr(obj.infexit),
               IntToStr(obj.infexitnum), IntToStr(obj.infenter),
               IntToStr(obj.infenternum), IntToStr(obj.infenterid),
               IntToStr(obj.player), IntToStr(obj.possessable),
               IntToStr(obj.playerorder), IntToStr(obj.fliph),
               IntToStr(obj.floatinspace), IntToStr(obj.specialeffect) >>,
            0, <<" ">>) >>
  ELSE IF obj.kind = "Wall"
  THEN << Indent(depth) \o <<"W", "a", "l", "l">> \o JoinFrom(
            << <<>>, IntToStr(obj.x), IntToStr(obj.y), IntToStr(obj.player),
               IntToStr(obj.possessable), IntToStr(obj.playerorder) >>,
            0, <<" ">>) >>
  ELSE << Indent(depth) \o <<"F", "l", "o", "o", "r">> \o JoinFrom(
            << <<>>, IntToStr(obj.x), IntToStr(obj.y), formatFloorType(obj) >>,
            0, <<" ">>) >>
emitSeq(objs, k, depth) ==
  IF k > Len(objs) THEN <<>>
  ELSE emitObj(objs[k], depth) \o emitSeq(objs, k + 1, depth)

\* A header field that is set (neither absent nor undefined nor null).
Has(r, f) == f \in DOMAIN r

\* The lines serializeLevel pushes for the header, its '#' line included.
headerLines(header) ==
  << <<"v", "e", "r", "s", "i", "o", "n", " ">> \o IntToStr(header.version) >>
  \o (IF Has(header, "attempt_order") /\ header.attempt_order # <<>>
      THEN << <<"a", "t", "t", "e", "m", "p", "t", "_", "o", "r", "d", "e", "r", " ">> \o header.attempt_order >> ELSE <<>>)
  \o (IF Has(header, "shed") /\ header.shed THEN << <<"s", "h", "e", "d">> >> ELSE <<>>)
  \o (IF Has(header, "inner_push") /\ header.inner_push
      THEN << <<"i", "n", "n", "e", "r", "_", "p", "u", "s", "h">> >> ELSE <<>>)
  \o (IF Has(header, "draw_style") /\ header.draw_style # <<>>
      THEN << <<"d", "r", "a", "w", "_", "s", "t", "y", "l", "e", " ">> \o header.draw_style >> ELSE <<>>)
  \o (IF Has(header, "custom_level_music")
      THEN << <<"c", "u", "s", "t", "o", "m", "_", "l", "e", "v", "e", "l", "_", "m", "u", "s", "i", "c", " ">> \o IntToStr(header.custom_level_music) >>
      ELSE <<>>)
  \o (IF Has(header, "custom_level_palette")
      THEN << <<"c", "u", "s", "t", "o", "m", "_", "l", "e", "v", "e", "l", "_", "p", "a", "l", "e", "t", "t", "e", " ">>
              \o IntToStr(header.custom_level_palette) >>
      ELSE <<>>)
  \o header.unknown
  \o << <<"#">> >>

\* serializeLevel: out.join('\n') + '\n'.
serializeLevel(level) ==
  JoinFrom(headerLines(level.header) \o emitSeq(level.roots, 1, 0),
           0, <<"\n">>)
  \o <<"\n">>

(***************************************************************************)
(* editor/editorState.ts                                                   *)
(***************************************************************************)
\* viewport.zoom, a float of up to 96.0, is a count of 10^-6: that keeps it
\* within the integers of the model for every FracDigits.
ZoomUnit == Pow10(6)

createInitialState ==
  [level |-> createEmptyLevel,
   selectedBlockPath |-> <<0>>,
   tool |-> [kind |-> "Select"],
   viewport |-> [panX |-> 0, panY |-> 0, zoom |-> 48 * ZoomUnit],
   lastError |-> Null,
   history |-> [past |-> <<>>, future |-> <<>>]]

\* A loop of getBlockByPath that takes a child of any kind for the next
\* Block, and a leaf reached before the end of the path for no match.
RECURSIVE getBlockLoopAnyKind(_, _, _)
getBlockLoopAnyKind(current, path, i) ==
  IF i > Len(path) THEN (IF current = Undefined THEN Null ELSE current)
  ELSE IF current = Undefined \/ "children" \notin DOMAIN current THEN Null
  ELSE getBlockLoopAnyKind(At(current.children, path[i]), path, i + 1)

\* The loop of getBlockByPath from index i (1-based position i + 1 of path).
RECURSIVE getBlockLoop(_, _, _)
getBlockLoop(current, path, i) ==
  IF i > Len(path) THEN (IF current = Undefined THEN Null ELSE current)
  ELSE IF current = Undefined THEN Null
  ELSE LET obj == At(current.children, path[i])
       IN IF obj = Undefined \/ obj.kind # "Block" THEN Null
          ELSE getBlockLoop(obj, path, i + 1)

getBlockByPath(level, path) ==
  IF Len(path) = 0 THEN Null
  ELSE getBlockLoop(At(level.roots, path[1]), path, 2)

Max(a, b) == IF a > b THEN a ELSE b

\* walkBlocks with the callback of nextBlockId: the largest id in the subtree
\* of b, or maxId when it is larger.
RECURSIVE walkMaxId(_, _)
RECURSIVE walkMaxIdSeq(_, _, _)
walkMaxId(b, maxId) == walkMaxIdSeq(b.children, 1, Max(b.id, maxId))
walkMaxIdSeq(objs, k, maxId) ==
  IF k > Len(objs) THEN maxId
  ELSE walkMaxIdSeq(objs, k + 1,
         IF objs[k].kind = "Block" THEN walkMaxId(objs[k], maxId) ELSE maxId)

RECURSIVE walkRootsMaxId(_, _, _)
walkRootsMaxId(roots, k, maxId) ==
  IF k > Len(roots) THEN maxId
  ELSE walkRootsMaxId(roots, k + 1, walkMaxId(roots[k], maxId))

\* A nextBlockId that looks at the roots only.
RECURSIVE maxRootId(_, _, _)
maxRootId(roots, k, maxId) ==
  IF k > Len(roots) THEN maxId
  ELSE maxRootId(roots, k + 1, Max(roots[k].id, maxId))
nextBlockIdOfRoots(level) == maxRootId(level.roots, 1, -1) + 1

nextBlockId(level) == walkRootsMaxId(level.roots, 1, -1) + 1

\* structuredClone: a deep copy, a value equal to its argument.
structuredClone(v) == v

cloneLevel(level) == structuredClone(level)

\* A pushHistory that keeps the pending redo entries.
pushHistoryKeepingFuture(s, next) ==
  [s EXCEPT !.level = next,
            !.history = [past |-> Append(s.history.past, s.level),
                         future |-> s.history.future]]

pushHistory(s, next) ==
  [s EXCEPT !.level = next,
            !.history = [past |-> Append(s.history.past, s.level),
                         future |-> <<>>]]

\* An undo that puts the abandoned Level at the end of future.
undoOntoEnd(s) ==
  LET past == s.history.past
  IN IF Len(past) = 0 THEN s
     ELSE [s EXCEPT !.level = past[Len(past)],
                    !.history = [past |-> SubSeq(past, 1, Len(past) - 1),
                                 future |-> Append(s.history.future, s.level)]]

\* An undo that drops future when there is nothing to undo.
undoOrForget(s) ==
  LET past == s.history.past
  IN IF Len(past) = 0 THEN [s EXCEPT !.history.future = <<>>]
     ELSE [s EXCEPT !.level = past[Len(past)],
                    !.history = [past |-> SubSeq(past, 1, Len(past) - 1),
                                 future |-> <<s.level>> \o s.history.future]]

undo(s) ==
  LET past == s.history.past
  IN IF Len(past) = 0 THEN s
     ELSE [s EXCEPT !.level = past[Len(past)],
                    !.history = [past |-> SubSeq(past, 1, Len(past) - 1),
                                 future |-> <<s.level>> \o s.history.future]]

\* A redo that takes the last entry of future.
redoFromEnd(s) ==
  LET future == s.history.future
  IN IF Len(future) = 0 THEN s
     ELSE [s EXCEPT !.level = future[Len(future)],
                    !.history = [past |-> Append(s.history.past, s.level),
                                 future |-> SubSeq(future, 1, Len(future) - 1)]]

\* A redo that overwrites the current Level instead of keeping it in past.
redoOverCurrent(s) ==
  LET future == s.history.future
  IN IF Len(future) = 0 THEN s
     ELSE [s EXCEPT !.level = future[1],
                    !.history = [past |-> s.history.past,
                                 future |-> SubSeq(future, 2, Len(future))]]

redo(s) ==
  LET future == s.history.future
  IN IF Len(future) = 0 THEN s
     ELSE [s EXCEPT !.level = future[1],
                    !.history = [past |-> Append(s.history.past, s.level),
                                 future |-> SubSeq(future, 2, Len(future))]]

\* children.findIndex(c => c.kind === kind && c.x === x && c.y === y), as a
\* JS index, -1 when there is none.
FindIndexFrom(children, kind, x, y) ==
  LET Hits == {k \in 1..Len(children) :
                 /\ children[k].kind = kind
                 /\ children[k].x = x
                 /\ children[k].y = y}
  IN IF Hits = {} THEN -1
     ELSE (CHOOSE k \in Hits : \A j \in Hits : k <= j) - 1

upsertWall(block, x, y) ==
  LET next == structuredClone(block)
      idx == FindIndexFrom(next.children, "Wall", x, y)
      wall == [kind |-> "Wall", x |-> x, y |-> y,
               player |-> 0, possessable |-> 0, playerorder |-> 0]
  IN IF idx >= 0
     THEN [next EXCEPT !.children = Splice1(next.children, idx)]
     ELSE [next EXCEPT !.children = Append(next.children, wall)]

\* An upsertFloor that takes the Floor at (x, y) out and puts the new one last.
upsertFloorAtEnd(block, x, y, floor) ==
  LET next == structuredClone(block)
      idx == FindIndexFrom(next.children, "Floor", x, y)
      obj == [kind |-> "Floor", x |-> x, y |-> y, type |-> floor]
  IN IF idx >= 0
     THEN [next EXCEPT !.children = Append(Splice1(next.children, idx), obj)]
     ELSE [next EXCEPT !.children = Append(next.children, obj)]

upsertFloor(block, x, y, floor) ==
  LET next == structuredClone(block)
      idx == FindIndexFrom(next.children, "Floor", x, y)
      obj == [kind |-> "Floor", x |-> x, y |-> y, type |-> floor]
  IN IF idx >= 0
     THEN [next EXCEPT !.children = ArrayStore(next.children, idx, obj)]
     ELSE [next EXCEPT !.children = Append(next.children, obj)]

\* A filter that keeps no child positioned at (x, y), Block or leaf.
KeptAtAnyKind(children, x, y) ==
  {k \in 1..Len(children) : ~(children[k].x = x /\ children[k].y = y)}

\* The filter of removeAt and addRef: Blocks stay, and so does every leaf
\* that is not at (x, y).
KeptAt(children, x, y) ==
  {k \in 1..Len(children) :
     IF children[k].kind = "Block" THEN TRUE
     ELSE ~(children[k].x = x /\ children[k].y = y)}

\* A removeAt that takes the Blocks positioned at (x, y) out as well.
removeAtAnyKind(block, x, y) ==
  LET next == structuredClone(block)
  IN [next EXCEPT !.children =
        FilterFrom(next.children, KeptAtAnyKind(next.children, x, y), 1)]

removeAt(block, x, y) ==
  LET next == structuredClone(block)
  IN [next EXCEPT !.children =
        FilterFrom(next.children, KeptAt(next.children, x, y), 1)]

addBlock(block, x, y, width, height, id) ==
  LET next == structuredClone(block)
      child == [kind |-> "Block", x |-> x, y |-> y, id |-> id,
                width |-> width, height |-> height,
                hue |-> block.hue, sat |-> block.sat, val |-> block.val,
                zoomfactor |-> Unit, fillwithwalls |-> 0, player |-> 0,
                possessable |-> 0, playerorder |-> 0, fliph |-> 0,
                floatinspace |-> 0, specialeffect |-> 0,
                children |-> <<>>]
  IN [next EXCEPT !.children = Append(next.children, child)]

\* An addRef that overwrites the Blocks positioned at (x, y) as well.
addRefOverCell(block, x, y, id) ==
  LET next == structuredClone(block)
      ref == [kind |-> "Ref", x |-> x, y |-> y, id |-> id,
              exitblock |-> 0, infexit |-> 0, infexitnum |-> 0,
              infenter |-> 0, infenternum |-> 0, infenterid |-> -1,
              player |-> 0, possessable |-> 0, playerorder |-> 0,
              fliph |-> 0, floatinspace |-> 0, specialeffect |-> 0]
  IN [next EXCEPT !.children =
        Append(FilterFrom(next.children,
                          KeptAtAnyKind(next.children, x, y), 1),
               ref)]

addRef(block, x, y, id) ==
  LET next == structuredClone(block)
      ref == [kind |-> "Ref", x |-> x, y |-> y, id |-> id,
              exitblock |-> 0, infexit |-> 0, infexitnum |-> 0,
              infenter |-> 0, infenternum |-> 0, infenterid |-> -1,
              player |-> 0, possessable |-> 0, playerorder |-> 0,
              fliph |-> 0, floatinspace |-> 0, specialeffect |-> 0]
  IN [next EXCEPT !.children =
        Append(FilterFrom(next.children, KeptAt(next.children, x, y), 1),
               ref)]

\* parent.children[last] = block, for the parent that getBlockByPath finds
\* at parentPath below the Block b: the write goes through to the copy.
RECURSIVE storeBelow(_, _, _, _, _)
storeBelow(b, parentPath, i, last, block) ==
  IF i > Len(parentPath)
  THEN [b EXCEPT !.children = ArrayStore(b.children, last, block)]
  ELSE [b EXCEPT !.children[parentPath[i] + 1] =
          storeBelow(b.children[parentPath[i] + 1], parentPath, i + 1,
                     last, block)]

\* A setBlockAtPath that stores every Block in the root slot of its path.
setBlockAtPathInRoot(level, path, block) ==
  LET next == cloneLevel(level)
  IN IF Len(path) = 0 THEN next
     ELSE [next EXCEPT !.roots = ArrayStore(next.roots, path[1], block)]

setBlockAtPath(level, path, block) ==
  LET next == cloneLevel(level)
  IN IF Len(path) = 0 THEN next
     ELSE IF Len(path) = 1
     THEN [next EXCEPT !.roots = ArrayStore(next.roots, path[1], block)]
     ELSE LET parentPath == SubSeq(path, 1, Len(path) - 1)
              parent == getBlockByPath(next, parentPath)
          IN IF parent = Null THEN next
             ELSE [next EXCEPT !.roots[parentPath[1] + 1] =
                     storeBelow(next.roots[parentPath[1] + 1], parentPath, 2,
                                path[Len(path)], block)]

\* An isWithin that has no upper limits.
isWithinFromOrigin(block, x, y) == x >= 0 /\ y >= 0

isWithin(block, x, y) ==
  x >= 0 /\ y >= 0 /\ x < block.width /\ y < block.height

\* A hitTest that looks for a leaf at the point before it looks for a Block.
hitTestLeavesFirst(block, x, y) ==
  LET c == block.children
      BlockHits == {k \in 1..Len(c) :
                      /\ c[k].kind = "Block"
                      /\ x >= c[k].x /\ y >= c[k].y
                      /\ x < c[k].x + c[k].width
                      /\ y < c[k].y + c[k].height}
      LeafHits == {k \in 1..Len(c) :
                     /\ c[k].kind # "Block"
                     /\ c[k].x = x /\ c[k].y = y}
      Last(S) == CHOOSE k \in S : \A j \in S : j <= k
  IN IF LeafHits # {}
     THEN [kind |-> "CellObj", index |-> Last(LeafHits) - 1]
     ELSE IF BlockHits # {}
     THEN [kind |-> "BlockChild", index |-> Last(BlockHits) - 1]
     ELSE Null

\* hitTest: Blocks first, the last one in the list that covers the point;
\* then the last leaf at the point.
hitTest(block, x, y) ==
  LET c == block.children
      BlockHits == {k \in 1..Len(c) :
                      /\ c[k].kind = "Block"
                      /\ x >= c[k].x /\ y >= c[k].y
                      /\ x < c[k].x + c[k].width
                      /\ y < c[k].y + c[k].height}
      LeafHits == {k \in 1..Len(c) :
                     /\ c[k].kind # "Block"
                     /\ c[k].x = x /\ c[k].y = y}
      Last(S) == CHOOSE k \in S : \A j \in S : j <= k
  IN IF BlockHits # {}
     THEN [kind |-> "BlockChild", index |-> Last(BlockHits) - 1]
     ELSE IF LeafHits # {}
     THEN [kind |-> "CellObj", index |-> Last(LeafHits) - 1]
     ELSE Null

\* The walk of listAllBlocks: {id, path} of b and of the Blocks below it, in
\* pre-order.
RECURSIVE listWalk(_, _)
RECURSIVE listWalkSeq(_, _, _)
listWalk(b, path) ==
  <<[id |-> b.id, path |-> path]>> \o listWalkSeq(b.children, path, 1)
listWalkSeq(objs, path, k) ==
  IF k > Len(objs) THEN <<>>
  ELSE (IF objs[k].kind = "Block"
        THEN listWalk(objs[k], Append(path, k - 1)) ELSE <<>>)
       \o listWalkSeq(objs, path, k + 1)

RECURSIVE listRoots(_, _)
listRoots(roots, k) ==
  IF k > Len(roots) THEN <<>>
  ELSE listWalk(roots[k], <<k - 1>>) \o listRoots(roots, k + 1)

\* out.sort((a, b) => a.id - b.id): a stable sort by id.
RECURSIVE sortById(_)
sortById(out) ==
  IF Len(out) <= 1 THEN out
  ELSE LET k == CHOOSE k \in 1..Len(out) :
                  /\ \A j \in 1..Len(out) : out[k].id <= out[j].id
                  /\ \A j \in 1..(k - 1) : out[j].id > out[k].id
       IN <<out[k]>> \o sortById(Splice1(out, k - 1))

listAllBlocks(level) == sortById(listRoots(level.roots, 1))

(***************************************************************************)
(* editor/LevelEditor.tsx                                                  *)
(***************************************************************************)
\* A selectedBlock that falls back to the first root when the path does not
\* resolve.
selectedBlockOrRoot(s) ==
  IF getBlockByPath(s.level, s.selectedBlockPath) = Null
  THEN At(s.level.roots, 0)
  ELSE getBlockByPath(s.level, s.selectedBlockPath)

\* selectedBlock, the memo of getBlockByPath over the current state.
selectedBlockOf(s) == getBlockByPath(s.level, s.selectedBlockPath)

\* Whether applyToolAt reaches one of its pushHistory calls.
commitsEdit(s, cellX, cellY, erase) ==
  LET selectedBlock == selectedBlockOf(s)
  IN /\ selectedBlock # Null
     /\ isWithin(selectedBlock, cellX, cellY)
     /\ s.tool.kind # "Select"
     /\ \/ erase
        \/ s.tool.kind \in {"Wall", "Floor", "Block"}
        \/ s.tool.kind = "Ref" /\ "targetBlockId" \in DOMAIN s.tool

\* nextBlock in the branch of applyToolAt that commits.
nextBlock(s, cellX, cellY, erase) ==
  LET block == selectedBlockOf(s)
      tool == s.tool
  IN IF erase THEN removeAt(block, cellX, cellY)
     ELSE IF tool.kind = "Wall" THEN upsertWall(block, cellX, cellY)
     ELSE IF tool.kind = "Floor"
     THEN upsertFloor(block, cellX, cellY, [kind |-> tool.floorKind])
     ELSE IF tool.kind = "Block"
     THEN addBlock(block, cellX, cellY, 3, 3, nextBlockId(s.level))
     ELSE addRef(block, cellX, cellY, tool.targetBlockId)

\* nextLevel in the branch of applyToolAt that commits.
nextLevel(s, cellX, cellY, erase) ==
  setBlockAtPath(s.level, s.selectedBlockPath,
                 nextBlock(s, cellX, cellY, erase))

applyToolAt(s, cellX, cellY, erase) ==
  LET selectedBlock == selectedBlockOf(s)
      tool == s.tool
      block == selectedBlock
  IN IF selectedBlock = Null THEN s
     ELSE IF ~isWithin(selectedBlock, cellX, cellY) THEN s
     ELSE IF tool.kind = "Select"
     THEN LET hit == hitTest(block, cellX, cellY)
          IN IF hit = Null THEN s
             ELSE IF At(block.children, hit.index).kind = "Block"
             THEN [s EXCEPT !.selectedBlockPath = Append(@, hit.index)]
             ELSE s
     ELSE IF tool.kind = "Ref" /\ ~erase /\ "targetBlockId" \notin DOMAIN tool
     THEN [s EXCEPT !.lastError =
             [message |-> "Pick a target block id for Ref first."]]
     ELSE pushHistory(s, nextLevel(s, cellX, cellY, erase))

setTool(s, tool) == [s EXCEPT !.tool = tool, !.lastError = Null]

\* The Ref button: the Ref tool, with the target it has when it is the tool
\* already and with none otherwise.
onRefButton(s) ==
  setTool(s, IF s.tool.kind = "Ref" THEN s.tool ELSE [kind |-> "Ref"])

\* onChange of the Target id input with the text `value`: null for the empty
\* text and Number(value) otherwise.  The texts typed (TargetValues) are whole
\* numbers, for which Trunc only takes the number out of its count of
\* 10^-FracDigits; it rounds nothing.
onTargetChange(s, value) ==
  setTool(s, IF value = <<>> THEN [kind |-> "Ref"]
             ELSE [kind |-> "Ref",
                   targetBlockId |-> Trunc(Number(<<value>>).v)])

clamp(n, a, b) ==
  LET least == IF b < n THEN b ELSE n
  IN IF a > least THEN a ELSE least

\* z * n / 10 of a zoom z, to the nearest 10^-6.
TimesTenths(z, n) == (z \div 10) * n + ((z % 10) * n + 5) \div 10

onWheel(s, deltaY) ==
  [s EXCEPT !.viewport.zoom =
     clamp(TimesTenths(@, IF deltaY > 0 THEN 9 ELSE 11),
           16 * ZoomUnit, 96 * ZoomUnit)]

\* onMouseDown with the middle button or Shift at (clientX, clientY): the
\* new value of dragRef.current.
startDrag(s, clientX, clientY) ==
  [active |-> TRUE, startX |-> clientX, startY |-> clientY,
   panX |-> s.viewport.panX, panY |-> s.viewport.panY]

\* The state update of onMouseMove at (clientX, clientY).
onMouseMove(s, drag, clientX, clientY) ==
  IF drag # Null /\ drag.active
  THEN [s EXCEPT !.viewport.panX = drag.panX + (clientX - drag.startX),
                 !.viewport.panY = drag.panY + (clientY - drag.startY)]
  ELSE s

\* onMouseUp: the new value of dragRef.current.
onMouseUp(drag) ==
  IF drag # Null THEN [drag EXCEPT !.active = FALSE] ELSE drag

onPickBlock(s, path) == [s EXCEPT !.selectedBlockPath = path]

\* An onImport that puts the parsed Level in the state as it is.
onImportInPlace(s, parsed) ==
  IF parsed.ok THEN [s EXCEPT !.level = parsed.level]
  ELSE [s EXCEPT !.lastError = parsed.error]

\* An onImport that starts afresh when the text does not parse.
onImportOrReset(s, parsed) ==
  IF parsed.ok THEN [createInitialState EXCEPT !.level = parsed.level]
  ELSE [createInitialState EXCEPT !.lastError = parsed.error]

\* onImport with ioText in the text area: the parsed Level in a fresh initial
\* state, or the state with the ParseError's message as lastError.
onImportParsed(s, parsed) ==
  IF parsed.ok THEN [createInitialState EXCEPT !.level = parsed.level]
  ELSE [s EXCEPT !.lastError = parsed.error]

onImport(s, ioText) == onImportParsed(s, parseLevel(ioText))

\* The Up button, enabled when canGoUp.
canGoUp(s) == Len(s.selectedBlockPath) > 1
goUp(s) ==
  [s EXCEPT !.selectedBlockPath = SubSeq(@, 1, Len(@) - 1)]

(***************************************************************************)
(* The editor as a state machine: one action per event handler.            *)
(***************************************************************************)
\* Cells a mouse event can land on: one inside every Block, one left of it
\* and one below it.
Cells == {<<0, 0>>, <<-1, 0>>, <<0, 9>>}
\* The values of state.tool that the sidebar can set.
Tools ==
  {[kind |-> "Select"], [kind |-> "Wall"],
   [kind |-> "Floor", floorKind |-> "Button"],
   [kind |-> "Floor", floorKind |-> "PlayerButton"],
   [kind |-> "Block"], [kind |-> "Ref"],
   [kind |-> "Ref", targetBlockId |-> 0]}

\* The tools of the buttons that set one tool: all but the Ref button.
ToolButtons ==
  {[kind |-> "Select"], [kind |-> "Wall"],
   [kind |-> "Floor", floorKind |-> "Button"],
   [kind |-> "Floor", floorKind |-> "PlayerButton"],
   [kind |-> "Block"]}
\* What the user can leave in the Target id input: nothing, and an id.
TargetValues == {<<>>, <<"0">>}
\* Wheel events, down and up, and the points of a drag.
WheelDeltas == {100, -100}
DragStarts == {<<100, 100>>}
DragMoves == {<<130, 110>>}

\* What the user has in the import text area: a Level of one 3x3 root with a
\* header flag, and a text whose last line, after a root Block, is indented
\* one level too deep.
ImportTexts ==
  {<<"v", "e", "r", "s", "i", "o", "n", " ", "4", "\n", "s", "h", "e", "d",
     "\n", "#", "\n", "B", "l", "o", "c", "k", " ", "0", " ", "0", " ",
     "5", " ", "3", " ", "3", " ", "0", ".", "6", " ", "0", ".", "8", " ",
     "1", " ", "1", " ", "0", " ", "0", " ", "0", " ", "0", " ", "0", " ",
     "0", " ", "0", "\n">>,
   <<"v", "e", "r", "s", "i", "o", "n", " ", "4", "\n", "#", "\n", "B",
     "l", "o", "c", "k", " ", "0", " ", "0", " ", "5", " ", "3", " ", "3",
     "\n", "\t", "\t", "W", "a", "l", "l", " ", "0", " ", "0", "\n">>}

\* parseLevel of each import text.
ParsedImports == [ioText \in ImportTexts |-> parseLevel(ioText)]

\* No call under way, and no object modelled by reference.
NoCall == [fn |-> "none"]
NoHeap == [cells |-> <<>>]

Init ==
  /\ state = createInitialState
  /\ call = NoCall
  /\ heap = NoHeap
  /\ dragRef = Null

MouseDown ==
  /\ \E cell \in Cells, erase \in BOOLEAN :
       /\ commitsEdit(state, cell[1], cell[2], erase)
            => Len(state.history.past) < MaxHistory
       /\ state' = applyToolAt(state, cell[1], cell[2], erase)
  /\ UNCHANGED <<call, heap, dragRef>>

Undo ==
  /\ state' = undo(state)
  /\ UNCHANGED <<call, heap, dragRef>>

Redo ==
  /\ state' = redo(state)
  /\ UNCHANGED <<call, heap, dragRef>>

SetTool ==
  /\ \E tool \in ToolButtons : state' = setTool(state, tool)
  /\ UNCHANGED <<call, heap, dragRef>>

RefButton ==
  /\ state' = onRefButton(state)
  /\ UNCHANGED <<call, heap, dragRef>>

\* The Target id input is rendered while the tool is Ref.
RefTarget ==
  /\ state.tool.kind = "Ref"
  /\ \E value \in TargetValues : state' = onTargetChange(state, value)
  /\ UNCHANGED <<call, heap, dragRef>>

PickBlock ==
  /\ \E k \in 1..Len(listAllBlocks(state.level)) :
       state' = onPickBlock(state, listAllBlocks(state.level)[k].path)
  /\ UNCHANGED <<call, heap, dragRef>>

Up ==
  /\ canGoUp(state)
  /\ state' = goUp(state)
  /\ UNCHANGED <<call, heap, dragRef>>

\* onImport(state, ioText), with parseLevel(ioText) computed once.
Import ==
  /\ \E ioText \in ImportTexts :
       state' = onImportParsed(state, ParsedImports[ioText])
  /\ UNCHANGED <<call, heap, dragRef>>

Next ==
  \/ MouseDown
  \/ Undo
  \/ Redo
  \/ SetTool
  \/ RefButton
  \/ RefTarget
  \/ PickBlock
  \/ Up
  \/ Import

\* The handlers of the Level, its history, the selected Block and the tool.
Spec == Init /\ [][Next]_vars

(***************************************************************************)
(* Calls of getBlockByPath and setBlockAtPath on their own: the arguments  *)
(* are drawn in the initial state, the call returns in one step.           *)
(***************************************************************************)
\* A Block with the colours of the empty level's root.
BlockOf(id, x, y, children) ==
  [createEmptyLevel.roots[1] EXCEPT !.id = id, !.x = x, !.y = y,
                                    !.width = 3, !.height = 3,
                                    !.children = children]

WallAt(x, y) ==
  [kind |-> "Wall", x |-> x, y |-> y,
   player |-> 0, possessable |-> 0, playerorder |-> 0]

FloorAt(x, y) ==
  [kind |-> "Floor", x |-> x, y |-> y, type |-> [kind |-> "Button"]]

\* A root holding a Wall, a Block and a Floor; the Block holds a Wall and a
\* Block, which holds a Floor.  Blocks are at paths 0; 0,1; 0,1,1.
NestedRoot ==
  BlockOf(0, 0, 0,
    <<WallAt(0, 0),
      BlockOf(1, 1, 1, <<WallAt(2, 2), BlockOf(2, 0, 0, <<FloorAt(1, 1)>>)>>),
      FloorAt(0, 1)>>)

\* The Levels of the calls: the empty level, one nested root, and two roots.
PathLevels ==
  {createEmptyLevel,
   [header |-> [version |-> 4, unknown |-> <<>>], roots |-> <<NestedRoot>>],
   [header |-> [version |-> 4, unknown |-> <<>>, shed |-> TRUE],
    roots |-> <<NestedRoot, BlockOf(3, 4, 4, <<>>)>>]}

\* The paths of the calls: every index from -1 on, every length from 0 on.
Indices == (-1)..MaxIndex
Paths == UNION {[1..n -> Indices] : n \in 0..MaxPathLen}

\* The Blocks that setBlockAtPath is given to store.
NewBlocks == {BlockOf(7, 0, 0, <<>>), BlockOf(8, 1, 0, <<WallAt(1, 1)>>)}

PathCalls ==
  {[fn |-> "getBlockByPath", level |-> l, path |-> p] :
     l \in PathLevels, p \in Paths}
  \cup
  {[fn |-> "setBlockAtPath", level |-> l, path |-> p, block |-> b] :
     l \in PathLevels, p \in Paths, b \in NewBlocks}

\* Whether the call has returned.
Returned(c) == "result" \in DOMAIN c

InitPaths ==
  /\ state = createInitialState
  /\ heap = NoHeap
  /\ dragRef = Null
  /\ call \in PathCalls

GetBlockByPath ==
  /\ call.fn = "getBlockByPath"
  /\ ~Returned(call)
  /\ call' = SetField(call, "result", getBlockByPath(call.level, call.path))
  /\ UNCHANGED <<state, heap, dragRef>>

SetBlockAtPath ==
  /\ call.fn = "setBlockAtPath"
  /\ ~Returned(call)
  /\ call' = SetField(call, "result",
                      setBlockAtPath(call.level, call.path, call.block))
  /\ UNCHANGED <<state, heap, dragRef>>

NextPaths ==
  \/ GetBlockByPath
  \/ SetBlockAtPath

SpecPaths == InitPaths /\ [][NextPaths]_vars

\* The object that the first n indices of path reach: roots[path[0]], then
\* the child at each further index.
RECURSIVE Reached(_, _, _)
Reached(level, path, n) ==
  IF n = 1 THEN level.roots[path[1] + 1]
  ELSE Reached(level, path, n - 1).children[path[n] + 1]

\* Whether each of the first n indices of path is in range where it is used
\* and reaches a Block.
RECURSIVE ReachesBlocks(_, _, _)
ReachesBlocks(level, path, n) ==
  IF n = 0 THEN TRUE
  ELSE /\ ReachesBlocks(level, path, n - 1)
       /\ LET slots == IF n = 1 THEN level.roots
                       ELSE Reached(level, path, n - 1).children
          IN /\ path[n] \in 0..(Len(slots) - 1)
             /\ slots[path[n] + 1].kind = "Block"

\* Whether path resolves to a Block of level.
Resolves(level, path) ==
  Len(path) >= 1 /\ ReachesBlocks(level, path, Len(path))

\* C10: getBlockByPath returns the Block reached by roots[path[0]] and then
\* the child at each further index; it returns null when the path is empty,
\* when an index is out of range, and when a child on the path, the last one
\* included, is not a Block.
C10_GetBlockByPath ==
  (call.fn = "getBlockByPath" /\ Returned(call))
    => call.result = IF Resolves(call.level, call.path)
                     THEN Reached(call.level, call.path, Len(call.path))
                     ELSE Null

\* getBlockByPath has returned the Block two levels below a root.
C10_Witness ==
  /\ call.fn = "getBlockByPath"
  /\ Returned(call)
  /\ Len(call.path) = 3
  /\ call.result # Null
  /\ call.result.id = 2

\* arr.length: one more than the largest index that is a key.
Length(arr) ==
  LET Keys == {k \in DOMAIN arr : k >= 1}
  IN IF Keys = {} THEN 0 ELSE CHOOSE k \in Keys : \A j \in Keys : j <= k

\* An object as structural equality sees it: of every array below it the
\* elements 0..length-1 (undefined in a hole), and no other property of the
\* array.
RECURSIVE Structure(_)
Structure(obj) ==
  IF "children" \in DOMAIN obj
  THEN [obj EXCEPT !.children =
          [k \in 1..Length(obj.children) |->
             IF k \in DOMAIN obj.children THEN Structure(obj.children[k])
             ELSE Undefined]]
  ELSE obj

\* Structural equality of two Levels: the same header, the same number of
\* roots, and structurally equal roots.
StructurallyEqual(a, b) ==
  /\ a.header = b.header
  /\ Length(a.roots) = Length(b.roots)
  /\ \A k \in 1..Length(a.roots) :
       /\ (k \in DOMAIN a.roots) = (k \in DOMAIN b.roots)
       /\ k \in DOMAIN a.roots => Structure(a.roots[k]) = Structure(b.roots[k])

\* C5: setBlockAtPath with a one-element path whose index is negative or at
\* least roots.length returns a Level structurally equal to its input Level:
\* as many roots, the same roots, the same header.
C5_RootOutOfRange ==
  (/\ call.fn = "setBlockAtPath"
   /\ Returned(call)
   /\ Len(call.path) = 1
   /\ call.path[1] \notin 0..(Len(call.level.roots) - 1))
    => StructurallyEqual(call.result, call.level)

\* C6: setBlockAtPath with a path that getBlockByPath does not resolve (the
\* empty path, an ancestor that does not resolve, a last index of a longer
\* path that is out of range or addresses a leaf) returns a Level
\* structurally equal to its input Level.
C6_UnresolvedPath ==
  (/\ call.fn = "setBlockAtPath"
   /\ Returned(call)
   /\ Len(call.path) # 1
   /\ getBlockByPath(call.level, call.path) = Null)
    => StructurallyEqual(call.result, call.level)

\* Whether p is a prefix of q, q itself included.
IsPrefix(p, q) == Len(p) <= Len(q) /\ SubSeq(q, 1, Len(p)) = p

\* The object in the slot that path q names (a root slot, or a child slot
\* of a Block that q's parent path resolves to), or undefined when there is
\* no such slot.
SlotAt(level, q) ==
  IF ~ReachesBlocks(level, q, Len(q) - 1) THEN Undefined
  ELSE LET slots == IF Len(q) = 1 THEN level.roots
                    ELSE Reached(level, q, Len(q) - 1).children
       IN IF q[Len(q)] \in 0..(Len(slots) - 1) THEN slots[q[Len(q)] + 1]
          ELSE Undefined

\* The slots that the frame of setBlockAtPath is asked about.
QuerySlots == UNION {[1..n -> 0..(MaxIndex + 1)] : n \in 1..(MaxPathLen + 1)}

\* A Block without its children, and with their number.
Shell(b) == [f \in (DOMAIN b) \ {"children"} |-> b[f]]

\* C7: for a path that resolves to a Block, setBlockAtPath returns a Level
\* where getBlockByPath at the path yields the Block given, the header is
\* equal, the roots are as many, every Block above the slot keeps its fields
\* and its number of children, and every slot that is neither above nor in
\* the addressed slot holds an equal object.
C7_SetBlockAtPathFrame ==
  (/\ call.fn = "setBlockAtPath"
   /\ Returned(call)
   /\ getBlockByPath(call.level, call.path) # Null)
    => /\ getBlockByPath(call.result, call.path) = call.block
       /\ call.result.header = call.level.header
       /\ DOMAIN call.result.roots = DOMAIN call.level.roots
       /\ \A q \in QuerySlots :
            IF IsPrefix(call.path, q) THEN TRUE
            ELSE IF IsPrefix(q, call.path)
            THEN /\ Shell(SlotAt(call.result, q)) = Shell(SlotAt(call.level, q))
                 /\ DOMAIN SlotAt(call.result, q).children
                      = DOMAIN SlotAt(call.level, q).children
            ELSE SlotAt(call.result, q) = SlotAt(call.level, q)

\* setBlockAtPath has replaced the Block two levels below the first of two
\* roots.
C7_Witness ==
  /\ call.fn = "setBlockAtPath"
  /\ Returned(call)
  /\ call.path = <<0, 1, 1>>
  /\ Len(call.level.roots) = 2
  /\ call.result # call.level
  /\ getBlockByPath(call.result, call.path) = call.block

(***************************************************************************)
(* Calls of serializeLevel and parseLevel on their own: a Level is drawn   *)
(* in the initial state, serialized in one step and parsed back in the     *)
(* next.                                                                   *)
(***************************************************************************)
\* The headers drawn: the least one, and two with recognized fields and
\* unrecognized lines.
CodecHeaders ==
  {[version |-> 4, unknown |-> <<>>],
   [version |-> 4, unknown |-> <<<<"f", "o", "o", " ", "b", "a", "r">>, <<"z", "e", "d">>>>,
    attempt_order |-> <<"p", "u", "s", "h", ",", "e", "n", "t", "e", "r", ",", "e", "a", "t">>, shed |-> TRUE],
   [version |-> 3, unknown |-> <<<<"d", "r", "a", "w", "_", "s", "t", "y", "l", "e", " ", "n", "e", "o", "n">>>>,
    inner_push |-> TRUE, draw_style |-> <<"t", "u", "i">>,
    custom_level_music |-> 2, custom_level_palette |-> -1]}

\* The floats drawn for a Block's hue: 0, 0.6, 1, -0.5, 1.5, 1e-7 and 5e-7,
\* which is halfway between two multiples of 1e-6.
CodecFloats ==
  {0, Tenths(6), Unit, -Tenths(5), Tenths(15), Unit \div Pow10(7),
   5 * (Unit \div Pow10(7))}

RefAt(x, y, id) ==
  [kind |-> "Ref", x |-> x, y |-> y, id |-> id,
   exitblock |-> 1, infexit |-> 0, infexitnum |-> 0,
   infenter |-> 0, infenternum |-> 0, infenterid |-> -1,
   player |-> 0, possessable |-> 1, playerorder |-> 2,
   fliph |-> 0, floatinspace |-> 0, specialeffect |-> 0]

FloorOf(x, y, type) == [kind |-> "Floor", x |-> x, y |-> y, type |-> type]

\* The children drawn for a root.
CodecChildren ==
  {<<>>,
   <<WallAt(0, 0), FloorAt(1, 0), RefAt(2, 0, 0)>>,
   <<BlockOf(1, 1, 1,
       <<FloorOf(0, 0, [kind |-> "Info", text |-> <<"a", " ", "b">>]),
         BlockOf(2, 0, 1, <<WallAt(2, 2)>>)>>),
     FloorOf(0, 2, [kind |-> "Portal", sceneName |-> <<"h", "u", "b", " ", "o", "n", "e">>]),
     FloorOf(1, 2, [kind |-> "Unknown", raw |-> <<"W", "e", "i", "r", "d", " ", "1">>])>>,
   <<FloorOf(0, 0, [kind |-> "PlayerButton"]),
     FloorOf(1, 0, [kind |-> "Break"]),
     FloorOf(2, 0, [kind |-> "Unknown", raw |-> <<>>]),
     RefAt(0, 1, 5)>>}

\* The Levels drawn: one root, or the root and an empty Block after it.
CodecLevels ==
  {[header |-> h,
    roots |-> <<[BlockOf(0, -1, -1, c) EXCEPT !.hue = f]>> \o more] :
     h \in CodecHeaders, f \in CodecFloats, c \in CodecChildren,
     more \in {<<>>, <<BlockOf(9, 0, 0, <<>>)>>}}

InitCodec ==
  /\ state = createInitialState
  /\ heap = NoHeap
  /\ dragRef = Null
  /\ call \in {[fn |-> "serializeLevel", level |-> l] : l \in CodecLevels}

SerializeLevel ==
  /\ call.fn = "serializeLevel"
  /\ ~Returned(call)
  /\ call' = SetField(call, "result", serializeLevel(call.level))
  /\ UNCHANGED <<state, heap, dragRef>>

\* parseLevel of the text that serializeLevel returned for the Level `of`.
ParseLevel ==
  /\ call.fn = "serializeLevel"
  /\ Returned(call)
  /\ call' = [fn |-> "parseLevel", text |-> call.result, of |-> call.level,
              result |-> parseLevel(call.result)]
  /\ UNCHANGED <<state, heap, dragRef>>

NextCodec ==
  \/ SerializeLevel
  \/ ParseLevel

SpecCodec == InitCodec /\ [][NextCodec]_vars

\* C1: for every Level built from a well-formed tree, whatever its header,
\* parseLevel(serializeLevel(level)) is a Level equal to it: the same header
\* fields and unknown lines in order, the same roots, the same children in
\* order at every depth.
C1_RoundTrip ==
  (call.fn = "parseLevel" /\ Returned(call))
    => /\ call.result.ok
       /\ call.result.level = call.of

(***************************************************************************)
(* History: undo, redo and the committing edit.                            *)
(***************************************************************************)
\* The inputs of applyToolAt that commit an edit in state s.
CommittingInputs(s) ==
  {in \in Cells \X BOOLEAN : commitsEdit(s, in[1][1], in[1][2], in[2])}

\* The Levels that a committing edit can make current in state s.
EditedLevels(s) ==
  {nextLevel(s, in[1][1], in[1][2], in[2]) : in \in CommittingInputs(s)}

\* pushHistory once per Level of nexts, in order.
RECURSIVE pushAll(_, _)
pushAll(s, nexts) ==
  IF Len(nexts) = 0 THEN s
  ELSE pushAll(pushHistory(s, nexts[1]), SubSeq(nexts, 2, Len(nexts)))

\* undo n times.
RECURSIVE undoTimes(_, _)
undoTimes(s, n) == IF n = 0 THEN s ELSE undoTimes(undo(s), n - 1)

\* level, past and future of an editor state.
Timeline(s) == <<s.level, s.history.past, s.history.future>>

\* C2: from any editor state, N committed edits followed by N undos leave the
\* Level that was current before the first edit current again, past as it
\* was before the first edit, and in future the N Levels that the edits
\* produced, in edit order.
C2_EditsThenUndos ==
  \A n \in 1..MaxEdits :
    \A nexts \in [1..n -> EditedLevels(state)] :
      Timeline(undoTimes(pushAll(state, nexts), n))
        = <<state.level, state.history.past, nexts>>

\* Two edits were committed on the empty level and both were undone.
C2_Witness ==
  /\ state.level = createEmptyLevel
  /\ state.history.past = <<>>
  /\ Len(state.history.future) = 2
  /\ state.history.future[1] # state.history.future[2]
  /\ EditedLevels(state) # {}

\* C3: a committed edit appends the pre-edit Level to the end of past, makes
\* the new Level current and empties future whatever it held, so that a redo
\* right after the edit changes nothing.
C3_EditClearsFuture ==
  [][\A in \in CommittingInputs(state) :
       state' = applyToolAt(state, in[1][1], in[1][2], in[2])
         => /\ state'.history.past = Append(state.history.past, state.level)
            /\ state'.level = nextLevel(state, in[1][1], in[1][2], in[2])
            /\ state'.history.future = <<>>
            /\ redo(state') = state']_vars

\* An undo has left a redo entry pending and the tool commits an edit, after
\* which a redo changes nothing.
C3_Witness ==
  /\ state.history.future # <<>>
  /\ Len(state.history.past) < MaxHistory
  /\ \E in \in CommittingInputs(state) :
       LET edited == applyToolAt(state, in[1][1], in[1][2], in[2])
       IN /\ edited.history.future = <<>>
          /\ redo(edited) = edited

\* C4: undo and redo are mutual inverses on level, past and future, and redo
\* takes the first entry of future, the Level undone last.
C4_UndoRedoInverse ==
  /\ state.history.past # <<>>
       => /\ Timeline(redo(undo(state))) = Timeline(state)
          /\ undo(state).history.future[1] = state.level
  /\ state.history.future # <<>>
       => /\ Timeline(undo(redo(state))) = Timeline(state)
          /\ redo(state).level = state.history.future[1]

\* Both directions apply: an edit can be undone and another one redone.
C4_Witness ==
  /\ state.history.past # <<>>
  /\ state.history.future # <<>>
  /\ state.history.past[1] # state.level
  /\ state.history.future[1] # state.level

(***************************************************************************)
(* Leaves per cell.                                                        *)
(***************************************************************************)
\* The leaves among children at cell (x, y), as positions.
LeavesAt(children, x, y) ==
  {k \in 1..Len(children) :
     /\ children[k].kind # "Block"
     /\ children[k].x = x
     /\ children[k].y = y}

\* Whether no cell of b, nor of any Block below it, holds two leaves.
RECURSIVE OneLeafPerCell(_)
OneLeafPerCell(b) ==
  \A k \in 1..Len(b.children) :
    IF b.children[k].kind = "Block" THEN OneLeafPerCell(b.children[k])
    ELSE Cardinality(LeavesAt(b.children, b.children[k].x,
                              b.children[k].y)) = 1

\* C9: from the empty level on, every cell of every Block holds at most one
\* leaf (Ref, Wall or Floor) among the children of that Block.
C9_OneLeafPerCell ==
  \A k \in 1..Len(state.level.roots) : OneLeafPerCell(state.level.roots[k])

(***************************************************************************)
(* The Levels of the editor by reference.  heap.cells holds the Level and  *)
(* Block objects in their order of allocation, each with its array: a      *)
(* Level with its roots, a Block with its children.  A Block in an array   *)
(* is a slot naming the address of its object; a leaf is written by no     *)
(* code, and is held in its slot by value.  heap.level and heap.history    *)
(* hold the addresses that state.level and state.history hold.             *)
(***************************************************************************)
\* The slot of an array that holds the Block object at address a.
BlockRef(a) == [kind |-> "Block", ref |-> a]
IsRef(slot) == "ref" \in DOMAIN slot

\* A new object, at the next address.
Allocate(cells, object) ==
  [cells |-> Append(cells, object), ref |-> Len(cells) + 1]

\* The array of an object: the roots of a Level, the children of a Block.
ArrayOf(object) == IF "roots" \in DOMAIN object THEN "roots" ELSE "children"

\* structuredClone of the object at address a: a new object for the object
\* and for every Block below it.  memory holds the clone of every object
\* copied so far, the object itself from before its array is copied, so
\* that an object met twice has one clone.
RECURSIVE cloneObject(_, _, _)
RECURSIVE cloneSlots(_, _, _, _, _)
cloneSlotsAfter(clone, slots, k, into) ==
  cloneSlots([clone.cells EXCEPT ![into][ArrayOf(clone.cells[into])] =
                Append(@, BlockRef(clone.ref))],
             clone.memory, slots, k + 1, into)

cloneSlots(cells, memory, slots, k, into) ==
  IF k > Len(slots) THEN [cells |-> cells, memory |-> memory, ref |-> into]
  ELSE IF IsRef(slots[k])
  THEN cloneSlotsAfter(cloneObject(cells, memory, slots[k].ref),
                       slots, k, into)
  ELSE cloneSlots([cells EXCEPT ![into][ArrayOf(cells[into])] =
                     Append(@, slots[k])],
                  memory, slots, k + 1, into)

allocateCopy(cells, memory, a, array) ==
  cloneSlots(Append(cells, [cells[a] EXCEPT ![array] = <<>>]),
             (a :> (Len(cells) + 1)) @@ memory,
             cells[a][array], 1, Len(cells) + 1)

cloneObject(cells, memory, a) ==
  IF a \in DOMAIN memory
  THEN [cells |-> cells, memory |-> memory, ref |-> memory[a]]
  ELSE allocateCopy(cells, memory, a, ArrayOf(cells[a]))

\* The clone without the memory of the call.
Cloned(clone) == [cells |-> clone.cells, ref |-> clone.ref]

structuredCloneInHeap(cells, a) == Cloned(cloneObject(cells, <<>>, a))

cloneLevelInHeap(cells, a) == Cloned(cloneObject(cells, <<>>, a))

\* The Block and the Level that an address stands for.
RECURSIVE BlockInHeap(_, _)
BlockInHeap(cells, a) ==
  [cells[a] EXCEPT !.children =
     [k \in 1..Len(cells[a].children) |->
        IF IsRef(cells[a].children[k])
        THEN BlockInHeap(cells, cells[a].children[k].ref)
        ELSE cells[a].children[k]]]

LevelInHeap(cells, a) ==
  [header |-> cells[a].header,
   roots |-> [k \in 1..Len(cells[a].roots) |->
                BlockInHeap(cells, cells[a].roots[k].ref)]]

\* getBlockByPath(level, path) on the Level at address `level`: the slot of
\* the Block, or Null.
RECURSIVE getBlockLoopInHeap(_, _, _, _)
getBlockLoopInHeap(cells, current, path, i) ==
  IF i > Len(path)
  THEN IF current = Undefined THEN Null ELSE current
  ELSE IF current = Undefined THEN Null
  ELSE LET obj == At(cells[current.ref].children, path[i])
       IN IF obj = Undefined \/ obj.kind # "Block" THEN Null
          ELSE getBlockLoopInHeap(cells, obj, path, i + 1)

getBlockByPathInHeap(cells, level, path) ==
  IF Len(path) = 0 THEN Null
  ELSE getBlockLoopInHeap(cells, At(cells[level].roots, path[1]), path, 2)

\* The writes of each mutation helper, all to `next`, its structuredClone of
\* the Block: next.cells[next.ref] becomes what the helper returns.
written(next, object) ==
  [cells |-> [next.cells EXCEPT ![next.ref] = object], ref |-> next.ref]

upsertWallInClone(next, x, y) ==
  written(next, upsertWall(next.cells[next.ref], x, y))

\* An upsertWall that writes into the Block it is given.
upsertWallInPlace(cells, block, x, y) ==
  upsertWallInClone([cells |-> cells, ref |-> block], x, y)

upsertWallInHeap(cells, block, x, y) ==
  upsertWallInClone(structuredCloneInHeap(cells, block), x, y)

upsertFloorInClone(next, x, y, floor) ==
  written(next, upsertFloor(next.cells[next.ref], x, y, floor))

upsertFloorInHeap(cells, block, x, y, floor) ==
  upsertFloorInClone(structuredCloneInHeap(cells, block), x, y, floor)

removeAtInClone(next, x, y) ==
  written(next, removeAt(next.cells[next.ref], x, y))

removeAtInHeap(cells, block, x, y) ==
  removeAtInClone(structuredCloneInHeap(cells, block), x, y)

\* The child of addBlock is a new object, in the last slot of next.children.
addBlockInClone(next, child) ==
  [cells |-> [child.cells EXCEPT ![next.ref].children =
                Append(@, BlockRef(child.ref))],
   ref |-> next.ref]

addBlockInHeap(cells, block, x, y, width, height, id) ==
  LET next == structuredCloneInHeap(cells, block)
      added == addBlock(next.cells[next.ref], x, y, width, height, id)
  IN addBlockInClone(next,
                     Allocate(next.cells, added.children[Len(added.children)]))

addRefInClone(next, x, y, id) ==
  written(next, addRef(next.cells[next.ref], x, y, id))

addRefInHeap(cells, block, x, y, id) ==
  addRefInClone(structuredCloneInHeap(cells, block), x, y, id)

\* setBlockAtPath(level, path, block): next is cloneLevel(level), and the one
\* write is to next.roots or to the children of the parent found in next.
storeInParent(next, parent, last, block) ==
  IF parent = Null THEN next
  ELSE [cells |-> [next.cells EXCEPT ![parent.ref].children =
                     ArrayStore(@, last, BlockRef(block))],
        ref |-> next.ref]

setBlockInClone(next, path, block) ==
  IF Len(path) = 0 THEN next
  ELSE IF Len(path) = 1
  THEN [cells |-> [next.cells EXCEPT ![next.ref].roots =
                     ArrayStore(@, path[1], BlockRef(block))],
        ref |-> next.ref]
  ELSE storeInParent(next,
                     getBlockByPathInHeap(next.cells, next.ref,
                                          SubSeq(path, 1, Len(path) - 1)),
                     path[Len(path)], block)

setBlockAtPathInHeap(cells, level, path, block) ==
  setBlockInClone(cloneLevelInHeap(cells, level), path, block)

\* applyToolAt in its branch that commits: nextBlock, nextLevel and the
\* pushHistory, which stores the address of the current Level in past.
nextBlockInHeap(h, s, cellX, cellY, erase) ==
  LET block == getBlockByPathInHeap(h.cells, h.level, s.selectedBlockPath).ref
      tool == s.tool
  IN IF erase THEN removeAtInHeap(h.cells, block, cellX, cellY)
     ELSE IF tool.kind = "Wall"
     THEN upsertWallInHeap(h.cells, block, cellX, cellY)
     ELSE IF tool.kind = "Floor"
     THEN upsertFloorInHeap(h.cells, block, cellX, cellY,
                            [kind |-> tool.floorKind])
     ELSE IF tool.kind = "Block"
     THEN addBlockInHeap(h.cells, block, cellX, cellY, 3, 3,
                         nextBlockId(LevelInHeap(h.cells, h.level)))
     ELSE addRefInHeap(h.cells, block, cellX, cellY, tool.targetBlockId)

nextLevelInHeap(h, s, block) ==
  setBlockAtPathInHeap(block.cells, h.level, s.selectedBlockPath, block.ref)

pushHistoryInHeap(h, next) ==
  pushHistory([h EXCEPT !.cells = next.cells], next.ref)

applyToolAtInHeap(h, s, cellX, cellY, erase) ==
  IF commitsEdit(s, cellX, cellY, erase)
  THEN pushHistoryInHeap(h,
         nextLevelInHeap(h, s, nextBlockInHeap(h, s, cellX, cellY, erase)))
  ELSE h

\* The objects the editor can still reach: those of the current Level and of
\* the Levels of past and future.
RefsOf(object) ==
  LET slots == IF "roots" \in DOMAIN object THEN object.roots
               ELSE object.children
  IN {slots[k].ref : k \in {j \in 1..Len(slots) : IsRef(slots[j])}}

RECURSIVE Reachable(_, _)
reachedFrom(cells, from, found) ==
  IF found = from THEN from ELSE Reachable(cells, found)

Reachable(cells, from) ==
  reachedFrom(cells, from, from \cup UNION {RefsOf(cells[a]) : a \in from})

Held(h) ==
  {h.level} \cup {h.history.past[k] : k \in 1..Len(h.history.past)}
            \cup {h.history.future[k] : k \in 1..Len(h.history.future)}

\* The heap without the objects that nothing reaches any more, the others in
\* their order of allocation.
Moved(live, a) == Cardinality({b \in live : b <= a})

movedSlots(live, slots) ==
  [k \in 1..Len(slots) |->
     IF IsRef(slots[k]) THEN BlockRef(Moved(live, slots[k].ref))
     ELSE slots[k]]

movedObject(live, object) ==
  IF "roots" \in DOMAIN object
  THEN [object EXCEPT !.roots = movedSlots(live, @)]
  ELSE [object EXCEPT !.children = movedSlots(live, @)]

collected(h, live) ==
  [cells |-> [n \in 1..Cardinality(live) |->
                movedObject(live,
                            h.cells[CHOOSE a \in live : Moved(live, a) = n])],
   level |-> Moved(live, h.level),
   history |->
     [past |-> [k \in 1..Len(h.history.past) |->
                  Moved(live, h.history.past[k])],
      future |-> [k \in 1..Len(h.history.future) |->
                    Moved(live, h.history.future[k])]]]

Collect(h) == collected(h, Reachable(h.cells, Held(h)))

\* The initial state by reference: the root of createEmptyLevel and the
\* Level, with nothing in the history.
InitialHeap ==
  [cells |-> <<createEmptyLevel.roots[1],
               [createEmptyLevel EXCEPT !.roots = <<BlockRef(1)>>]>>,
   level |-> 2,
   history |-> [past |-> <<>>, future |-> <<>>]]

InitHeap ==
  /\ state = createInitialState
  /\ call = NoCall
  /\ heap = InitialHeap
  /\ dragRef = Null

\* Each handler that reads or writes a Level acts on the state and on the
\* objects behind it.
MouseDownInHeap ==
  /\ \E cell \in Cells, erase \in BOOLEAN :
       /\ commitsEdit(state, cell[1], cell[2], erase)
            => Len(state.history.past) < MaxHistory
       /\ state' = applyToolAt(state, cell[1], cell[2], erase)
       /\ heap' = Collect(applyToolAtInHeap(heap, state, cell[1], cell[2],
                                            erase))
  /\ UNCHANGED <<call, dragRef>>

UndoInHeap ==
  /\ state' = undo(state)
  /\ heap' = undo(heap)
  /\ UNCHANGED <<call, dragRef>>

RedoInHeap ==
  /\ state' = redo(state)
  /\ heap' = redo(heap)
  /\ UNCHANGED <<call, dragRef>>

NextHeap ==
  \/ MouseDownInHeap
  \/ UndoInHeap
  \/ RedoInHeap
  \/ SetTool
  \/ RefButton
  \/ RefTarget
  \/ PickBlock
  \/ Up

SpecHeap == InitHeap /\ [][NextHeap]_vars

\* The objects behind the current Level stand for state.level.
CurrentLevelInHeap == LevelInHeap(heap.cells, heap.level) = state.level

\* C8: a Level stored in history.past or history.future is never changed by
\* a later operation: after any sequence of edits, undos and redos, the
\* objects behind every snapshot still stand for the Level that was stored.
C8_SnapshotsUnchanged ==
  /\ Len(heap.history.past) = Len(state.history.past)
  /\ Len(heap.history.future) = Len(state.history.future)
  /\ \A k \in 1..Len(heap.history.past) :
       LevelInHeap(heap.cells, heap.history.past[k]) = state.history.past[k]
  /\ \A k \in 1..Len(heap.history.future) :
       LevelInHeap(heap.cells, heap.history.future[k])
         = state.history.future[k]

\* A snapshot in past and one in future, each unlike the current Level, the
\* current Level holding a Block below its root.
C8_Witness ==
  /\ heap.history.past # <<>>
  /\ heap.history.future # <<>>
  /\ state.history.past[1] # state.level
  /\ state.history.future[1] # state.level
  /\ \E k \in 1..Len(heap.cells) :
       /\ "children" \in DOMAIN heap.cells[k]
       /\ \E j \in 1..Len(heap.cells[k].children) :
            IsRef(heap.cells[k].children[j])

(***************************************************************************)
(* Calls of hitTest on their own: the Block and the point are drawn in the *)
(* initial state, the call returns in one step.                            *)
(***************************************************************************)
MaxChildren == 3

\* The children of the Block: two 3x3 Blocks that overlap in cell (2, 2),
\* two leaves in that cell and a Wall in cell (0, 0), in any order.
HitObjects ==
  {BlockOf(1, 0, 0, <<>>), BlockOf(2, 2, 2, <<>>),
   WallAt(2, 2), FloorAt(2, 2), WallAt(0, 0)}
HitChildren == UNION {[1..n -> HitObjects] : n \in 0..MaxChildren}

\* The points: in both Blocks, in one of them, just right of the first, and
\* in none.
HitPoints == {<<2, 2>>, <<0, 0>>, <<4, 4>>, <<3, 0>>, <<2, 4>>, <<5, 5>>}

HitCalls ==
  {[fn |-> "hitTest", block |-> BlockOf(0, 0, 0, c), x |-> p[1], y |-> p[2]] :
     c \in HitChildren, p \in HitPoints}

InitHit ==
  /\ state = createInitialState
  /\ heap = NoHeap
  /\ dragRef = Null
  /\ call \in HitCalls

HitTest ==
  /\ call.fn = "hitTest"
  /\ ~Returned(call)
  /\ call' = SetField(call, "result", hitTest(call.block, call.x, call.y))
  /\ UNCHANGED <<state, heap, dragRef>>

NextHit == HitTest

SpecHit == InitHit /\ [][NextHit]_vars

\* Whether the child at position k is a Block whose rectangle holds (x, y),
\* and whether it is a leaf at (x, y).
Covers(c, k, x, y) ==
  /\ c[k].kind = "Block"
  /\ c[k].x <= x /\ x < c[k].x + c[k].width
  /\ c[k].y <= y /\ y < c[k].y + c[k].height

LeafAt(c, k, x, y) == c[k].kind # "Block" /\ c[k].x = x /\ c[k].y = y

\* C11: hitTest returns the child Block with the highest index whose
\* rectangle holds the point when a child Block holds it, otherwise the leaf
\* with the highest index at the point, otherwise null; a Block is returned
\* even when a leaf at the point has a higher index.
C11_HitTest ==
  (call.fn = "hitTest" /\ Returned(call)) =>
    LET c == call.block.children
        r == call.result
    IN IF \E k \in 1..Len(c) : Covers(c, k, call.x, call.y)
       THEN /\ r.kind = "BlockChild"
            /\ (r.index + 1) \in 1..Len(c)
            /\ Covers(c, r.index + 1, call.x, call.y)
            /\ \A j \in (r.index + 2)..Len(c) : ~Covers(c, j, call.x, call.y)
       ELSE IF \E k \in 1..Len(c) : LeafAt(c, k, call.x, call.y)
       THEN /\ r.kind = "CellObj"
            /\ (r.index + 1) \in 1..Len(c)
            /\ LeafAt(c, r.index + 1, call.x, call.y)
            /\ \A j \in (r.index + 2)..Len(c) : ~LeafAt(c, j, call.x, call.y)
       ELSE r = Null

\* A Block is returned, below another Block that holds the point too, and a
\* leaf at the point has a higher index.
C11_Witness ==
  /\ call.fn = "hitTest"
  /\ Returned(call)
  /\ call.result.kind = "BlockChild"
  /\ \E j \in 1..(call.result.index) :
       Covers(call.block.children, j, call.x, call.y)
  /\ \E j \in (call.result.index + 2)..Len(call.block.children) :
       LeafAt(call.block.children, j, call.x, call.y)


(***************************************************************************)
(* Calls of parseLevel on texts put together from lines, each followed by  *)
(* serializeLevel of the Level when there is one.  call.head holds the     *)
(* lines before the '#' line and call.body the lines after it.             *)
(***************************************************************************)
MaxHeadLines == 3
MaxBodyLines == 3

\* Header lines: a version, a flag, two lines that end up in header.unknown,
\* a version that is no number, a blank line, and a hexadecimal version after
\* a form feed.
HeadLines ==
  {<<"v", "e", "r", "s", "i", "o", "n", " ", "4">>, <<"s", "h", "e", "d">>, <<"z", "o", "o", "m", " ", "2">>, <<"d", "r", "a", "w", "_", "s", "t", "y", "l", "e", " ", "n", "e", "o", "n">>,
   <<"v", "e", "r", "s", "i", "o", "n", " ", "x">>, <<>>,
   <<"v", "e", "r", "s", "i", "o", "n", "\f", "0", "x", "1", "0">>}

\* Body lines: Blocks at depths 0 and 1 (the second of width 0), leaves at
\* depths 0, 1 and 2, a line of one tab, and Walls at depths 0 and 2 that
\* end in a line separator.
BodyLines ==
  {<<"B", "l", "o", "c", "k", " ", "0", " ", "0", " ", "1", " ", "3", " ", "3">>, <<"\t", "B", "l", "o", "c", "k", " ", "1", " ", "1", " ", "2", " ", "0", " ", "3">>, <<"\t", "W", "a", "l", "l", " ", "0", " ", "0">>,
   <<"\t", "\t", "F", "l", "o", "o", "r", " ", "1", " ", "1", " ", "B", "u", "t", "t", "o", "n">>, <<"R", "e", "f", " ", "2", " ", "2", " ", "1">>, <<"\t">>,
   <<"W", "a", "l", "l", " ", "1", " ", "1", "U+2028">>,
   <<"\t", "\t", "W", "a", "l", "l", " ", "2", " ", "2", "U+2028">>}

\* Header lines with a value: draw_style with a value that is accepted, one
\* that is not and none, custom_level_music with a number and with a word,
\* custom_level_palette with no value, and a line with an unknown key.
ValueHeadLines ==
  {<<"d", "r", "a", "w", "_", "s", "t", "y", "l", "e", " ", "g", "r", "i", "d">>, <<"d", "r", "a", "w", "_", "s", "t", "y", "l", "e", " ", "n", "e", "o", "n">>, <<"d", "r", "a", "w", "_", "s", "t", "y", "l", "e">>,
   <<"c", "u", "s", "t", "o", "m", "_", "l", "e", "v", "e", "l", "_", "m", "u", "s", "i", "c", " ", "7">>, <<"c", "u", "s", "t", "o", "m", "_", "l", "e", "v", "e", "l", "_", "m", "u", "s", "i", "c", " ", "a", "b", "c">>,
   <<"c", "u", "s", "t", "o", "m", "_", "l", "e", "v", "e", "l", "_", "p", "a", "l", "e", "t", "t", "e">>, <<"z", "o", "o", "m", " ", "2">>}

\* The tokens of a boolean field, and no token.
FlagTokens ==
  {<<>>, <<" ", "1">>, <<" ", "0">>, <<" ", "1", ".", "5">>, <<" ", "1", ".", "0">>, <<" ", "+", "1">>, <<" ", "0", "1">>,
   <<" ", "2">>, <<" ", "t", "r", "u", "e">>}

\* Blank lines: an empty line, a tab and a form feed, which the stripping of
\* blanks and tabs leaves as it is, and three tabs, which is deeper than any
\* Block of the bodies.
BlankLines == {<<>>, <<"\t", "\f">>, <<"\t", "\t", "\t">>}

\* Bodies that parse: a root, a Block in it and a Floor in that Block; a
\* root with a Wall, and a second root.
NestedBodies ==
  {<<<<"B", "l", "o", "c", "k", " ", "0", " ", "0", " ", "0", " ", "3", " ", "3">>, <<"\t", "B", "l", "o", "c", "k", " ", "1", " ", "1", " ", "1", " ", "3", " ", "3">>, <<"\t", "\t", "F", "l", "o", "o", "r", " ", "1", " ", "1", " ", "B", "u", "t", "t", "o", "n">>>>,
   <<<<"B", "l", "o", "c", "k", " ", "0", " ", "0", " ", "0", " ", "3", " ", "3">>, <<"\t", "W", "a", "l", "l", " ", "0", " ", "0">>, <<"B", "l", "o", "c", "k", " ", "0", " ", "0", " ", "1", " ", "3", " ", "3">>>>}

\* The body b with the lines g[1] before its first line, g[2] before its
\* second, and so on, and g[Len(b) + 1] after its last.
RECURSIVE Interleaved(_, _, _)
Interleaved(b, g, k) ==
  IF k > Len(b) THEN g[k]
  ELSE g[k] \o <<b[k]>> \o Interleaved(b, g, k + 1)

\* The texts whose bodies vary, under a header of one line or of three, the
\* texts whose headers vary, over a body of one root, the texts whose
\* headers are a version and lines with a value, the texts of a root with a
\* Wall and a Ref whose last token is a boolean field, and the texts of a
\* body that parses with no, one or two blank lines at each position.
ParseCalls ==
  {[fn |-> "parseLevel", head |-> h, body |-> b] :
     h \in {<<<<"v", "e", "r", "s", "i", "o", "n", " ", "4">>>>, <<<<"v", "e", "r", "s", "i", "o", "n", " ", "4">>, <<>>, <<"s", "h", "e", "d">>>>},
     b \in UNION {[1..n -> BodyLines] : n \in 0..MaxBodyLines}}
  \cup
  {[fn |-> "parseLevel", head |-> h, body |-> <<<<"B", "l", "o", "c", "k", " ", "0", " ", "0", " ", "0", " ", "3", " ", "3">>>>] :
     h \in UNION {[1..n -> HeadLines] : n \in 0..MaxHeadLines}}
  \cup
  {[fn |-> "parseLevel", head |-> <<<<"v", "e", "r", "s", "i", "o", "n", " ", "4">>>> \o h, body |-> <<<<"B", "l", "o", "c", "k", " ", "0", " ", "0", " ", "0", " ", "3", " ", "3">>>>] :
     h \in UNION {[1..n -> ValueHeadLines] : n \in 1..MaxHeadLines}}
  \cup
  {[fn |-> "parseLevel", head |-> <<<<"v", "e", "r", "s", "i", "o", "n", " ", "4">>>>,
    body |-> <<<<"B", "l", "o", "c", "k", " ", "0", " ", "0", " ", "0", " ", "3", " ", "3", " ", "0", ".", "6", " ", "0", ".", "8", " ", "1", " ", "1">> \o f[1],
               <<"\t", "W", "a", "l", "l", " ", "0", " ", "0">> \o f[2],
               <<"\t", "R", "e", "f", " ", "1", " ", "1", " ", "0">> \o f[3]>>] :
     f \in FlagTokens \X FlagTokens \X FlagTokens}
  \cup
  {[fn |-> "parseLevel", head |-> <<<<"v", "e", "r", "s", "i", "o", "n", " ", "4">>>>,
    body |-> Interleaved(b, g, 1)] :
     b \in NestedBodies,
     g \in [1..4 -> {<<>>} \cup {<<l>> : l \in BlankLines}
                    \cup {<<>> \o <<<<"\t", "\t", "\t">>, <<>>>>}]}

\* The text of a call: its lines, each ended by a line feed.
TextOf(c) == JoinFrom(c.head \o <<<<"#">>>> \o c.body \o << <<>> >>, 0, <<"\n">>)

InitParse ==
  /\ state = createInitialState
  /\ heap = NoHeap
  /\ dragRef = Null
  /\ call \in ParseCalls

ParseText ==
  /\ call.fn = "parseLevel"
  /\ "head" \in DOMAIN call
  /\ ~Returned(call)
  /\ call' = SetField(call, "result", parseLevel(TextOf(call)))
  /\ UNCHANGED <<state, heap, dragRef>>

WriteParsed ==
  /\ call.fn = "parseLevel"
  /\ "head" \in DOMAIN call
  /\ Returned(call)
  /\ call.result.ok
  /\ "written" \notin DOMAIN call
  /\ call' = SetField(call, "written", serializeLevel(call.result.level))
  /\ UNCHANGED <<state, heap, dragRef>>

NextParse ==
  \/ ParseText
  \/ WriteParsed

SpecParse == InitParse /\ [][NextParse]_vars


\* What the lines of a body say, read line by line.
IsBlank(line) == Trim(line) = <<>>
DepthOf(line) == ScanTo(line, 1, {"\t"}, FALSE) - 1
KindOf(line) == IF IsBlank(line) THEN <<>> ELSE TokensFrom(line, 1)[1]
IsBlockLine(line) == KindOf(line) = <<"B", "l", "o", "c", "k">>
IsLeafLine(line) == KindOf(line) \in {<<"W", "a", "l", "l">>, <<"F", "l", "o", "o", "r">>, <<"R", "e", "f">>}

\* The last line of body[1..k] that is not blank, or 0.
RECURSIVE LastContent(_, _)
LastContent(body, k) ==
  IF k = 0 THEN 0
  ELSE IF IsBlank(body[k]) THEN LastContent(body, k - 1)
  ELSE k

\* The Blocks open after body[1..k]: those above the last line that is not
\* blank, and that line when it is a Block.
OpenAfter(body, k) ==
  LET p == LastContent(body, k)
  IN IF p = 0 THEN 0
     ELSE DepthOf(body[p]) + (IF IsBlockLine(body[p]) THEN 1 ELSE 0)

\* A line deeper than the Blocks open before it; a leaf at depth 0; a line
\* of no known kind.
TooDeep(body, k) ==
  ~IsBlank(body[k]) /\ DepthOf(body[k]) > OpenAfter(body, k - 1)
LeafAtRoot(body, k) ==
  ~IsBlank(body[k]) /\ DepthOf(body[k]) = 0 /\ IsLeafLine(body[k])
Rejected(body, k) ==
  \/ TooDeep(body, k)
  \/ LeafAtRoot(body, k)
  \/ ~IsBlank(body[k]) /\ ~IsBlockLine(body[k]) /\ ~IsLeafLine(body[k])

\* Whether body[k] is the first line of the body that cannot be taken.
FirstRejected(body, k) ==
  Rejected(body, k) /\ \A j \in 1..(k - 1) : ~Rejected(body, j)

\* Whether the header loop takes every line of head.
HeadTaken(head) ==
  \A k \in 1..Len(head) :
    (~IsBlank(head[k]) /\ KindOf(head[k]) = <<"v", "e", "r", "s", "i", "o", "n">>)
      => Number(Arg(TokensFrom(head[k], 1), 1)).finite

\* The number of body[k] among the lines of the text of call c.
LineNumber(c, k) == Len(c.head) + 1 + k

\* C12: a body line that is not blank and is deeper than the Blocks open
\* before it, a line one level below a leaf included, raises a ParseError
\* with that line's 1-based number in the whole text.
C12_TooDeepIsAnError ==
  (call.fn = "parseLevel" /\ "head" \in DOMAIN call /\ Returned(call)
     /\ HeadTaken(call.head)) =>
    \A k \in 1..Len(call.body) :
      (FirstRejected(call.body, k) /\ TooDeep(call.body, k)) =>
        /\ ~call.result.ok
        /\ call.result.error =
             ParseError("Invalid indentation (no parent block at that depth)",
                        LineNumber(call, k))


\* The object that line k of the body of call c stands for, without
\* children.
ObjectOf(c, k) ==
  LET tokens == TokensFrom(c.body[k], 1)
  IN parseObject(tokens[1], SubSeq(tokens, 2, Len(tokens)),
                 LineNumber(c, k)).obj

\* The lines one level below the Block line j, up to the next line that is
\* not deeper than j: the lines whose nearest open Block one level up is j.
Below(body, j) ==
  {k \in (j + 1)..Len(body) :
     /\ ~IsBlank(body[k])
     /\ DepthOf(body[k]) = DepthOf(body[j]) + 1
     /\ \A m \in (j + 1)..(k - 1) :
          IsBlank(body[m]) \/ DepthOf(body[m]) > DepthOf(body[j])}

\* The objects of the lines S in the order of the lines, every Block with
\* the objects of the lines below it.
RECURSIVE ObjectsOf(_, _)
ObjectsOf(c, S) ==
  IF S = {} THEN <<>>
  ELSE LET k == CHOOSE k \in S : \A j \in S : k <= j
           obj == ObjectOf(c, k)
       IN << IF obj.kind = "Block"
             THEN [obj EXCEPT !.children = ObjectsOf(c, Below(c.body, k))]
             ELSE obj >>
          \o ObjectsOf(c, S \ {k})

RootLines(body) ==
  {k \in 1..Len(body) : ~IsBlank(body[k]) /\ DepthOf(body[k]) = 0}

\* C13: a Wall, Floor or Ref line at depth 0 raises a ParseError, as the
\* first body line or after a root Block with its subtree; a parse that
\* succeeds has only Blocks among the roots, and every leaf among the
\* children of the nearest open Block one level up.
C13_LeafNeedsBlock ==
  (call.fn = "parseLevel" /\ "head" \in DOMAIN call /\ Returned(call)
     /\ HeadTaken(call.head)) =>
    /\ (\E k \in 1..Len(call.body) : LeafAtRoot(call.body, k))
         => ~call.result.ok
    /\ \A k \in 1..Len(call.body) :
         (FirstRejected(call.body, k) /\ LeafAtRoot(call.body, k)) =>
           /\ ~call.result.ok
           /\ call.result.error.message = "must be inside a Block"
           /\ call.result.error.line = LineNumber(call, k)
    /\ call.result.ok =>
         /\ \A k \in 1..Len(call.result.level.roots) :
              call.result.level.roots[k].kind = "Block"
         /\ call.result.level.roots
              = ObjectsOf(call, RootLines(call.body))


\* Whether b and every Block below it have a positive width and height.
RECURSIVE PositiveSize(_)
PositiveSize(b) ==
  /\ b.width > 0
  /\ b.height > 0
  /\ \A k \in 1..Len(b.children) :
       b.children[k].kind = "Block" => PositiveSize(b.children[k])

\* C15: every Block of every Level the program can hold, a Level returned
\* by parseLevel included, has width > 0 and height > 0.
C15_PositiveSizes ==
  /\ \A k \in 1..Len(state.level.roots) : PositiveSize(state.level.roots[k])
  /\ (call.fn = "parseLevel" /\ "head" \in DOMAIN call /\ Returned(call)
        /\ call.result.ok) =>
       \A k \in 1..Len(call.result.level.roots) :
         PositiveSize(call.result.level.roots[k])

\* C16: parseLevel raises a ParseError when the header holds no version
\* line, as it does when the version is not a finite number.
C16_VersionRequired ==
  (call.fn = "parseLevel" /\ "head" \in DOMAIN call /\ Returned(call)) =>
    ((\A k \in 1..Len(call.head) : KindOf(call.head[k]) # <<"v", "e", "r", "s", "i", "o", "n">>)
       => ~call.result.ok)

\* The lines of the written text before its '#' line.
WrittenHeader(c) ==
  LET lines == SplitLines(c.written, 1)
  IN SubSeq(lines, 1,
            (CHOOSE k \in 1..Len(lines) :
               /\ lines[k] = <<"#">>
               /\ \A j \in 1..(k - 1) : lines[j] # <<"#">>) - 1)

\* Whether the header loop puts the line in header.unknown.
IsUnknownLine(line) ==
  /\ ~IsBlank(line)
  /\ \/ KindOf(line) \notin
          {<<"v", "e", "r", "s", "i", "o", "n">>, <<"a", "t", "t", "e", "m", "p", "t", "_", "o", "r", "d", "e", "r">>, <<"s", "h", "e", "d">>, <<"i", "n", "n", "e", "r", "_", "p", "u", "s", "h">>,
           <<"d", "r", "a", "w", "_", "s", "t", "y", "l", "e">>, <<"c", "u", "s", "t", "o", "m", "_", "l", "e", "v", "e", "l", "_", "m", "u", "s", "i", "c">>,
           <<"c", "u", "s", "t", "o", "m", "_", "l", "e", "v", "e", "l", "_", "p", "a", "l", "e", "t", "t", "e">>}
     \/ /\ KindOf(line) = <<"d", "r", "a", "w", "_", "s", "t", "y", "l", "e">>
        /\ Arg(TokensFrom(line, 1), 1) \notin
             {<<<<"t", "u", "i">>>>, <<<<"g", "r", "i", "d">>>>, <<<<"o", "l", "d", "s", "t", "y", "l", "e">>>>}

\* The position of the line in a sequence of lines that holds it once.
PositionIn(lines, line) == CHOOSE k \in 1..Len(lines) : lines[k] = line
Once(lines, line) == Cardinality({k \in 1..Len(lines) : lines[k] = line}) = 1

\* C17: an unrecognized header line is written back by serializeLevel of the
\* parsed Level verbatim, and before and after the same header lines as in
\* the text.
C17_UnknownLineInPlace ==
  (call.fn = "parseLevel" /\ "written" \in DOMAIN call) =>
    \A u \in 1..Len(call.head) :
      (IsUnknownLine(call.head[u]) /\ Once(call.head, call.head[u])) =>
        /\ Once(WrittenHeader(call), call.head[u])
        /\ \A v \in 1..Len(call.head) :
             (Once(call.head, call.head[v])
                /\ Once(WrittenHeader(call), call.head[v])) =>
               ((u < v) <=> (PositionIn(WrittenHeader(call), call.head[u])
                              < PositionIn(WrittenHeader(call), call.head[v])))


(***************************************************************************)
(* Imports that fail.                                                      *)
(***************************************************************************)
\* C14: when the text imported makes parseLevel raise a ParseError, the
\* current Level, history.past, history.future and selectedBlockPath of the
\* editor stay as they are and only lastError is set, to the error.
C14_FailedImportKeepsLevel ==
  [][\A ioText \in ImportTexts :
       (/\ ~ParsedImports[ioText].ok
        /\ state' = onImportParsed(state, ParsedImports[ioText])) =>
         /\ state'.level = state.level
         /\ state'.history = state.history
         /\ state'.selectedBlockPath = state.selectedBlockPath
         /\ state'.tool = state.tool
         /\ state'.viewport = state.viewport
         /\ state'.lastError = ParsedImports[ioText].error]_vars

\* An import has failed on a line after a root Block, in an editor with an
\* edited Level, an edit to undo, a Block below the root selected and a zoom
\* that the wheel has changed.
C14_Witness ==
  /\ "line" \in DOMAIN state.lastError
  /\ state.lastError.line > 3
  /\ state.level # createEmptyLevel
  /\ state.history.past # <<>>
  /\ Len(state.selectedBlockPath) > 1
  /\ state.viewport.zoom # createInitialState.viewport.zoom


(***************************************************************************)
(* Block ids.                                                              *)
(***************************************************************************)
\* The ids of b and of the Blocks below it, and of the Blocks of a Level.
RECURSIVE IdsBelow(_)
RECURSIVE IdsAmong(_, _)
IdsBelow(b) == <<b.id>> \o IdsAmong(b.children, 1)
IdsAmong(objs, k) ==
  IF k > Len(objs) THEN <<>>
  ELSE (IF objs[k].kind = "Block" THEN IdsBelow(objs[k]) ELSE <<>>)
       \o IdsAmong(objs, k + 1)
LevelIds(level) == IdsAmong(level.roots, 1)

Distinct(ids) ==
  \A i, j \in 1..Len(ids) : i # j => ids[i] # ids[j]

\* C18: the Block ids of the current Level are pairwise distinct after any
\* tool applications, undos and redos, and the Block tool gives the Block
\* it places an id above every id of the Level it is added to.
C18_DistinctIds ==
  LET ids == LevelIds(state.level)
  IN /\ Distinct(ids)
     /\ \A cell \in Cells :
          (state.tool.kind = "Block" /\ commitsEdit(state, cell[1], cell[2], FALSE)) =>
            LET next == LevelIds(applyToolAt(state, cell[1], cell[2], FALSE).level)
                New == {next[k] : k \in 1..Len(next)}
                         \ {ids[k] : k \in 1..Len(ids)}
            IN /\ Len(next) = Len(ids) + 1
               /\ New # {}
               /\ \A n \in New : \A k \in 1..Len(ids) : n > ids[k]

\* Three Blocks, one below a Block below a root.
C18_Witness ==
  /\ Len(LevelIds(state.level)) >= 3
  /\ \E r \in 1..Len(state.level.roots) :
       \E k \in 1..Len(state.level.roots[r].children) :
         /\ state.level.roots[r].children[k].kind = "Block"
         /\ \E j \in 1..Len(state.level.roots[r].children[k].children) :
              state.level.roots[r].children[k].children[j].kind = "Block"

(***************************************************************************)
(* Undo and redo with nothing to undo or redo.                             *)
(***************************************************************************)
RECURSIVE redoTimes(_, _)
redoTimes(s, n) == IF n = 0 THEN s ELSE redoTimes(redo(s), n - 1)

\* C19: undo with an empty past and redo with an empty future return the
\* state as it is, every field of it, however often they are called.
C19_NothingToUndo ==
  /\ state.history.past = <<>> =>
       \A n \in 1..(MaxEdits + 1) : undoTimes(state, n) = state
  /\ state.history.future = <<>> =>
       \A n \in 1..(MaxEdits + 1) : redoTimes(state, n) = state

\* Nothing to undo, an edit to redo, an error shown and a tool chosen.
C19_Witness ==
  /\ state.history.past = <<>>
  /\ state.history.future # <<>>
  /\ state.lastError # Null
  /\ state.tool.kind # "Select"
  /\ undo(state) = state


(***************************************************************************)
(* The editor with its renders.  A handler is a closure of the last call   *)
(* of LevelEditor: it reads the `state` of that render, and what it hands  *)
(* to setState is an updater that React applies to the latest state.  call *)
(* holds that last render and the number of events handled since.          *)
(***************************************************************************)
MaxEvents == 6

\* The tools chosen in this specification.
RenderedTools == {[kind |-> "Select"], [kind |-> "Wall"], [kind |-> "Block"]}

\* applyToolAt as a closure of the render r, its updaters applied to the
\* latest state s.
applyToolAtRendered(r, s, cellX, cellY, erase) ==
  LET selectedBlock == selectedBlockOf(r)
      tool == r.tool
      block == selectedBlock
  IN IF selectedBlock = Null THEN s
     ELSE IF ~isWithin(selectedBlock, cellX, cellY) THEN s
     ELSE IF tool.kind = "Select"
     THEN LET hit == hitTest(block, cellX, cellY)
          IN IF hit = Null THEN s
             ELSE IF At(block.children, hit.index).kind = "Block"
             THEN [s EXCEPT !.selectedBlockPath = Append(@, hit.index)]
             ELSE s
     ELSE IF tool.kind = "Ref" /\ ~erase /\ "targetBlockId" \notin DOMAIN tool
     THEN [s EXCEPT !.lastError =
             [message |-> "Pick a target block id for Ref first."]]
     ELSE pushHistory(s, nextLevel(r, cellX, cellY, erase))

\* The closures of the latest render, the events handled so far, and
\* whether a state update waits for its render.
Rendered(s, n) ==
  [fn |-> "LevelEditor", state |-> s, handled |-> n, pending |-> FALSE]

\* After a discrete event (mouse down, click, key down): the render of the
\* state it updated comes before the next event.
Handled(c, s, next) ==
  [c EXCEPT !.handled = @ + 1, !.pending = next # s]

\* After a wheel event or a mouse down that begins a drag: the event is
\* counted and no render waits.  The render of a wheel or a mouse move event
\* may come before or after the next event.
Counted(c) == [c EXCEPT !.handled = @ + 1]

InitRendered ==
  /\ state = createInitialState
  /\ call = Rendered(createInitialState, 0)
  /\ heap = NoHeap
  /\ dragRef = Null

\* React calls LevelEditor with the latest state: after a discrete event
\* whose handler updated the state and before the next event, and at some
\* time after a wheel or mouse move event that updated it.
Render ==
  /\ call.pending \/ call.state # state
  /\ call' = Rendered(state, call.handled)
  /\ UNCHANGED <<state, heap, dragRef>>

MouseDownRendered ==
  /\ ~call.pending
  /\ call.handled < MaxEvents
  /\ \E cell \in Cells, erase \in BOOLEAN :
       /\ commitsEdit(call.state, cell[1], cell[2], erase)
            => Len(state.history.past) < MaxHistory
       /\ state' = applyToolAtRendered(call.state, state, cell[1], cell[2],
                                       erase)
  /\ call' = Handled(call, state, state')
  /\ UNCHANGED <<heap, dragRef>>

UndoRendered ==
  /\ ~call.pending
  /\ call.handled < MaxEvents
  /\ state' = undo(state)
  /\ call' = Handled(call, state, state')
  /\ UNCHANGED <<heap, dragRef>>

RedoRendered ==
  /\ ~call.pending
  /\ call.handled < MaxEvents
  /\ state' = redo(state)
  /\ call' = Handled(call, state, state')
  /\ UNCHANGED <<heap, dragRef>>

SetToolRendered ==
  /\ ~call.pending
  /\ call.handled < MaxEvents
  /\ \E tool \in RenderedTools : state' = setTool(state, tool)
  /\ call' = Handled(call, state, state')
  /\ UNCHANGED <<heap, dragRef>>

\* The buttons of the block list are those of the Level of the render.
PickBlockRendered ==
  /\ ~call.pending
  /\ call.handled < MaxEvents
  /\ \E k \in 1..Len(listAllBlocks(call.state.level)) :
       state' = onPickBlock(state, listAllBlocks(call.state.level)[k].path)
  /\ call' = Handled(call, state, state')
  /\ UNCHANGED <<heap, dragRef>>

\* The Up button is enabled by canGoUp of the render.
UpRendered ==
  /\ ~call.pending
  /\ call.handled < MaxEvents
  /\ canGoUp(call.state)
  /\ state' = goUp(state)
  /\ call' = Handled(call, state, state')
  /\ UNCHANGED <<heap, dragRef>>

ImportRendered ==
  /\ ~call.pending
  /\ call.handled < MaxEvents
  /\ \E ioText \in ImportTexts :
       state' = onImportParsed(state, ParsedImports[ioText])
  /\ call' = Handled(call, state, state')
  /\ UNCHANGED <<heap, dragRef>>

\* A wheel event: the updater of onWheel on the latest state.
Wheel ==
  /\ ~call.pending
  /\ call.handled < MaxEvents
  /\ \E deltaY \in WheelDeltas : state' = onWheel(state, deltaY)
  /\ call' = Counted(call)
  /\ UNCHANGED <<heap, dragRef>>

\* A mouse down with the middle button or with Shift: dragRef.current takes
\* the pan of the state of the render.
MouseDownPan ==
  /\ ~call.pending
  /\ call.handled < MaxEvents
  /\ \E p \in DragStarts : dragRef' = startDrag(call.state, p[1], p[2])
  /\ call' = Counted(call)
  /\ UNCHANGED <<state, heap>>

MouseMove ==
  /\ ~call.pending
  /\ \E p \in DragMoves : state' = onMouseMove(state, dragRef, p[1], p[2])
  /\ UNCHANGED <<call, heap, dragRef>>

MouseUp ==
  /\ ~call.pending
  /\ dragRef' = onMouseUp(dragRef)
  /\ UNCHANGED <<state, call, heap>>

NextView ==
  \/ Render
  \/ MouseDownRendered
  \/ UndoRendered
  \/ RedoRendered
  \/ SetToolRendered
  \/ PickBlockRendered
  \/ UpRendered
  \/ ImportRendered
  \/ Wheel
  \/ MouseDownPan
  \/ MouseMove
  \/ MouseUp

\* The editor with its renders: the handlers of the Level, its history, the
\* selected Block, the tool and the viewport, up to MaxEvents events.
SpecView == InitRendered /\ [][NextView]_vars

(***************************************************************************)
(* Calls of applyToolAt of one render.  applyToolAt is defined by a render *)
(* of LevelEditor and closes over its `state`; each call computes the new  *)
(* Level from that state and hands setState an updater, which is applied   *)
(* to the state that the updaters before it have left.                     *)
(***************************************************************************)
\* The calls made of the applyToolAt of one render.
MaxApplications == 2

\* The states rendered: the empty level with the Wall, Floor and Block tool,
\* and the Wall tool after a Wall was put at (1, 0).
RenderedStates ==
  {setTool(createInitialState, tool) :
     tool \in {[kind |-> "Wall"], [kind |-> "Block"],
               [kind |-> "Floor", floorKind |-> "Button"]}}
  \cup {applyToolAt(setTool(createInitialState, [kind |-> "Wall"]),
                    1, 0, FALSE)}

\* The cells of the calls: four inside the root and one left of it.
ClosureCells == {<<0, 0>>, <<1, 0>>, <<0, 1>>, <<2, 2>>, <<-1, 0>>}

InitClosure ==
  /\ \E r \in RenderedStates :
       /\ state = r
       /\ call = [fn |-> "applyToolAt", state |-> r, applied |-> 0]
  /\ heap = NoHeap
  /\ dragRef = Null

\* One call applyToolAt(cellX, cellY, erase) of the render call.state.
ApplyToolAt ==
  /\ call.applied < MaxApplications
  /\ \E cell \in ClosureCells, erase \in BOOLEAN :
       state' = applyToolAtRendered(call.state, state, cell[1], cell[2],
                                    erase)
  /\ call' = [call EXCEPT !.applied = @ + 1]
  /\ UNCHANGED <<heap, dragRef>>

NextClosure == ApplyToolAt

SpecClosure == InitClosure /\ [][NextClosure]_vars

\* C20: every edit that applyToolAt commits records as its pre-edit entry
\* the Level from which it computed the new Level, also when two tool
\* applications are issued against the same rendered state: undo right
\* after the edit returns the Level the edit was applied to, which is the
\* Level of the render, and the new Level is the edit of the Level that was
\* current, so that no edit committed before is lost.
C20_EditRecordsItsLevel ==
  [][\A cell \in ClosureCells, erase \in BOOLEAN :
       (/\ call'.applied = call.applied + 1
        /\ commitsEdit(call.state, cell[1], cell[2], erase)
        /\ state' = applyToolAtRendered(call.state, state, cell[1],
                                        cell[2], erase)) =>
         /\ undo(state').level = call.state.level
         /\ undo(state').level = state.level
         /\ state'.level = nextLevel(state, cell[1], cell[2], erase)]_vars


(***************************************************************************)
(* The timeline: past, the current Level and future as one sequence.       *)
(***************************************************************************)
Whole(s) == s.history.past \o <<s.level>> \o s.history.future

\* The state after the undos and redos of steps, in order.
RECURSIVE walkHistory(_, _)
walkHistory(s, steps) ==
  IF Len(steps) = 0 THEN s
  ELSE walkHistory(IF steps[1] = "undo" THEN undo(s) ELSE redo(s),
                   SubSeq(steps, 2, Len(steps)))

\* C21: past ++ [level] ++ future is the same sequence after undo and after
\* redo, so any sequence of undos and redos keeps it and keeps
\* len(past) + len(future); pushHistory(state, next) makes it
\* past ++ [level, next].
C21_TimelineKept ==
  /\ Whole(undo(state)) = Whole(state)
  /\ Whole(redo(state)) = Whole(state)
  /\ \A n \in 1..(MaxEdits + 1) :
       \A steps \in [1..n -> {"undo", "redo"}] :
         LET s == walkHistory(state, steps)
         IN /\ Whole(s) = Whole(state)
            /\ Len(s.history.past) + Len(s.history.future)
                 = Len(state.history.past) + Len(state.history.future)
  /\ \A next \in EditedLevels(state) :
       Whole(pushHistory(state, next))
         = state.history.past \o <<state.level, next>>

\* Three different Levels on the timeline, the current one in the middle,
\* where undo and redo both move and an edit would drop the redo entry.
C21_Witness ==
  /\ Len(state.history.past) = 1
  /\ Len(state.history.future) = 1
  /\ Cardinality({Whole(state)[k] : k \in 1..3}) = 3
  /\ undo(state) # state
  /\ redo(state) # state
  /\ EditedLevels(state) # {}


(***************************************************************************)
(* A selectedBlockPath that no longer resolves.                            *)
(***************************************************************************)
\* C22: undo and redo keep selectedBlockPath, and while selectedBlockPath
\* does not resolve to a Block of the current Level, applyToolAt with any
\* tool, at any cell, erasing or not, returns the state as it is: level,
\* past and future are unchanged and no error is set.
C22_StalePathIsInert ==
  /\ undo(state).selectedBlockPath = state.selectedBlockPath
  /\ redo(state).selectedBlockPath = state.selectedBlockPath
  /\ getBlockByPath(state.level, state.selectedBlockPath) = Null =>
       \A tool \in Tools, cell \in Cells, erase \in BOOLEAN :
         LET s == [state EXCEPT !.tool = tool]
             after == applyToolAt(s, cell[1], cell[2], erase)
         IN /\ Timeline(after) = Timeline(state)
            /\ after.lastError = state.lastError
            /\ after = s

\* The user went into a Block, and an undo took that Block out of the Level:
\* the path of length 2 resolves in the Level that redo brings back, not in
\* the current one, and a tool that edits is chosen.
C22_Witness ==
  /\ Len(state.selectedBlockPath) = 2
  /\ getBlockByPath(state.level, state.selectedBlockPath) = Null
  /\ state.history.future # <<>>
  /\ getBlockByPath(state.history.future[1], state.selectedBlockPath) # Null
  /\ state.tool.kind = "Wall"
  /\ applyToolAt(state, 0, 0, FALSE) = state


(***************************************************************************)
(* Calls of upsertWall, upsertFloor, removeAt and addRef on their own: the *)
(* Block and the cell are drawn in the initial state, the call returns in  *)
(* one step.                                                               *)
(***************************************************************************)
\* The children of the Block: Walls in two cells, two Floors, a Ref and a
\* 3x3 Block in cell (0, 0), in any order and any number of times, as
\* parseLevel returns them for a text with such lines.
CellObjects ==
  {WallAt(0, 0), WallAt(1, 1), FloorAt(0, 0),
   FloorOf(0, 0, [kind |-> "PlayerButton"]), RefAt(0, 0, 1),
   BlockOf(1, 0, 0, <<>>)}
CellChildren == UNION {[1..n -> CellObjects] : n \in 0..MaxChildren}

\* The cells: one with leaves and the Block, one with a Wall under the
\* Block, one under the Block only.
CellPoints == {<<0, 0>>, <<1, 1>>, <<2, 2>>}

CellCalls ==
  UNION {
    {[fn |-> "upsertWall", block |-> BlockOf(0, 0, 0, c), x |-> p[1], y |-> p[2]],
     [fn |-> "removeAt", block |-> BlockOf(0, 0, 0, c), x |-> p[1], y |-> p[2]],
     [fn |-> "addRef", block |-> BlockOf(0, 0, 0, c), x |-> p[1], y |-> p[2],
      id |-> 2],
     [fn |-> "upsertFloor", block |-> BlockOf(0, 0, 0, c), x |-> p[1], y |-> p[2],
      floor |-> [kind |-> "Button"]],
     [fn |-> "upsertFloor", block |-> BlockOf(0, 0, 0, c), x |-> p[1], y |-> p[2],
      floor |-> [kind |-> "PlayerButton"]]} :
    c \in CellChildren, p \in CellPoints}

InitCell ==
  /\ state = createInitialState
  /\ heap = NoHeap
  /\ dragRef = Null
  /\ call \in CellCalls

UpsertWall ==
  /\ call.fn = "upsertWall"
  /\ ~Returned(call)
  /\ call' = SetField(call, "result", upsertWall(call.block, call.x, call.y))
  /\ UNCHANGED <<state, heap, dragRef>>

UpsertFloor ==
  /\ call.fn = "upsertFloor"
  /\ ~Returned(call)
  /\ call' = SetField(call, "result",
                      upsertFloor(call.block, call.x, call.y, call.floor))
  /\ UNCHANGED <<state, heap, dragRef>>

RemoveAt ==
  /\ call.fn = "removeAt"
  /\ ~Returned(call)
  /\ call' = SetField(call, "result", removeAt(call.block, call.x, call.y))
  /\ UNCHANGED <<state, heap, dragRef>>

AddRef ==
  /\ call.fn = "addRef"
  /\ ~Returned(call)
  /\ call' = SetField(call, "result",
                      addRef(call.block, call.x, call.y, call.id))
  /\ UNCHANGED <<state, heap, dragRef>>

NextCell ==
  \/ UpsertWall
  \/ UpsertFloor
  \/ RemoveAt
  \/ AddRef

SpecCell == InitCell /\ [][NextCell]_vars

\* The positions of c that hold an object of the kind at (x, y), and the
\* sequence c without position k.
KindAt(c, kind, x, y) ==
  {k \in 1..Len(c) : c[k].kind = kind /\ c[k].x = x /\ c[k].y = y}
Without(c, k) == SubSeq(c, 1, k - 1) \o SubSeq(c, k + 1, Len(c))
First(S) == CHOOSE k \in S : \A j \in S : k <= j

\* C23: upsertWall(block, x, y) on a Block with a Wall at (x, y) returns the
\* Block without that Wall and with no Wall at (x, y); on a Block with no
\* Wall there it returns the Block with one new Wall as its last child, and
\* a second call at the cell gives the original Block back.  The other
\* children keep their values and their order.
C23_UpsertWallToggles ==
  (call.fn = "upsertWall" /\ Returned(call)) =>
    LET c == call.block.children
        r == call.result.children
        Walls == KindAt(c, "Wall", call.x, call.y)
    IN /\ call.result = [call.block EXCEPT !.children = r]
       /\ IF Walls # {}
          THEN /\ r = Without(c, First(Walls))
               /\ KindAt(r, "Wall", call.x, call.y) = {}
          ELSE /\ r = Append(c, WallAt(call.x, call.y))
               /\ upsertWall(call.result, call.x, call.y) = call.block


\* The leaves of c at (x, y), and the children of c that are Blocks.
LeavesIn(c, x, y) ==
  {k \in 1..Len(c) : c[k].kind # "Block" /\ c[k].x = x /\ c[k].y = y}
IsBlock(obj) == obj.kind = "Block"
BlocksOf(c) == SelectSeq(c, IsBlock)

\* c without its leaves at (x, y), in the order of c.
RECURSIVE OffCell(_, _, _)
OffCell(c, x, y) ==
  IF Len(c) = 0 THEN <<>>
  ELSE (IF c[1].kind # "Block" /\ c[1].x = x /\ c[1].y = y
        THEN <<>> ELSE <<c[1]>>)
       \o OffCell(Tail(c), x, y)

\* The Ref that addRef creates.
NewRef(x, y, id) ==
  [kind |-> "Ref", x |-> x, y |-> y, id |-> id,
   exitblock |-> 0, infexit |-> 0, infexitnum |-> 0,
   infenter |-> 0, infenternum |-> 0, infenterid |-> -1,
   player |-> 0, possessable |-> 0, playerorder |-> 0,
   fliph |-> 0, floatinspace |-> 0, specialeffect |-> 0]

\* C24: addRef(block, x, y, id) returns the Block with the new Ref as its
\* last child and as its only leaf at (x, y); every child Block is kept,
\* also one positioned at (x, y) or covering it, and the leaves of the
\* other cells keep their values and their order.
C24_AddRefOverwritesLeaves ==
  (call.fn = "addRef" /\ Returned(call)) =>
    LET c == call.block.children
        r == call.result.children
    IN /\ call.result = [call.block EXCEPT !.children = r]
       /\ Len(r) >= 1
       /\ r[Len(r)] = NewRef(call.x, call.y, call.id)
       /\ LeavesIn(r, call.x, call.y) = {Len(r)}
       /\ BlocksOf(r) = BlocksOf(c)
       /\ SubSeq(r, 1, Len(r) - 1) = OffCell(c, call.x, call.y)

\* A Ref is added at (0, 0) to a Block that holds a child Block positioned
\* there, a Wall there and a Wall elsewhere.
C24_Witness ==
  /\ call.fn = "addRef" /\ Returned(call)
  /\ call.x = 0 /\ call.y = 0
  /\ Len(call.block.children) = 3
  /\ call.block.children[1] = WallAt(1, 1)
  /\ call.block.children[2] = WallAt(0, 0)
  /\ call.block.children[3].kind = "Block"
  /\ call.result.children
       = <<WallAt(1, 1), call.block.children[3], NewRef(0, 0, 2)>>

\* C25: removeAt(block, x, y) returns the Block without its Refs, Walls and
\* Floors at (x, y), the other children, every child Block among them, in
\* their order; hitTest at (x, y) then finds no leaf, and a Block without a
\* leaf at (x, y) is returned as it is.
C25_RemoveAtLeavesOnly ==
  (call.fn = "removeAt" /\ Returned(call)) =>
    LET c == call.block.children
        r == call.result.children
        hit == hitTest(call.result, call.x, call.y)
    IN /\ call.result = [call.block EXCEPT !.children = r]
       /\ r = OffCell(c, call.x, call.y)
       /\ LeavesIn(r, call.x, call.y) = {}
       /\ BlocksOf(r) = BlocksOf(c)
       /\ hit = Null \/ hit.kind = "BlockChild"
       /\ LeavesIn(c, call.x, call.y) = {} => call.result = call.block

\* Two leaves are removed at (0, 0), around a child Block positioned there,
\* which stays and is what hitTest finds.
C25_Witness ==
  /\ call.fn = "removeAt" /\ Returned(call)
  /\ call.x = 0 /\ call.y = 0
  /\ Len(call.block.children) = 3
  /\ call.block.children[1].kind = "Floor"
  /\ call.block.children[2].kind = "Block"
  /\ call.block.children[3].kind = "Ref"
  /\ call.result.children = <<call.block.children[2]>>
  /\ hitTest(call.result, 0, 0) = [kind |-> "BlockChild", index |-> 0]

\* C26: upsertFloor(block, x, y, t) on a Block with a Floor at (x, y) puts
\* the new Floor at the index of that Floor and keeps the number of
\* children; on a Block with no Floor there it appends the new Floor.  The
\* other children are unchanged, and a second call with the same arguments
\* returns what the first returned.
C26_UpsertFloorInPlace ==
  (call.fn = "upsertFloor" /\ Returned(call)) =>
    LET c == call.block.children
        r == call.result.children
        Floors == KindAt(c, "Floor", call.x, call.y)
        obj == FloorOf(call.x, call.y, call.floor)
    IN /\ call.result = [call.block EXCEPT !.children = r]
       /\ IF Floors # {}
          THEN /\ Len(r) = Len(c)
               /\ r = [c EXCEPT ![First(Floors)] = obj]
          ELSE r = Append(c, obj)
       /\ upsertFloor(call.result, call.x, call.y, call.floor) = call.result

\* A Button Floor between two other children is replaced by a PlayerButton
\* Floor.
C26_Witness ==
  /\ call.fn = "upsertFloor" /\ Returned(call)
  /\ call.x = 0 /\ call.y = 0
  /\ call.floor = [kind |-> "PlayerButton"]
  /\ Len(call.block.children) = 3
  /\ call.block.children[1] = WallAt(0, 0)
  /\ call.block.children[2] = FloorAt(0, 0)
  /\ call.block.children[3].kind = "Block"
  /\ call.result.children[2] = FloorOf(0, 0, [kind |-> "PlayerButton"])
  /\ call.result # call.block


(***************************************************************************)
(* Header lines with a value, and boolean fields.                          *)
(***************************************************************************)
\* Whether the line has a recognized key that takes a value and a value
\* that the key does not accept: draw_style with another value than tui,
\* grid and oldstyle, custom_level_music and custom_level_palette with a
\* value that is no number or with none.
Unacceptable(line) ==
  /\ ~IsBlank(line)
  /\ \/ /\ KindOf(line) = <<"d", "r", "a", "w", "_", "s", "t", "y", "l", "e">>
        /\ Arg(TokensFrom(line, 1), 1) \notin
             {<<<<"t", "u", "i">>>>, <<<<"g", "r", "i", "d">>>>, <<<<"o", "l", "d", "s", "t", "y", "l", "e">>>>}
     \/ /\ KindOf(line) \in {<<"c", "u", "s", "t", "o", "m", "_", "l", "e", "v", "e", "l", "_", "m", "u", "s", "i", "c">>, <<"c", "u", "s", "t", "o", "m", "_", "l", "e", "v", "e", "l", "_", "p", "a", "l", "e", "t", "t", "e">>}
        /\ ~Number(Arg(TokensFrom(line, 1), 1)).finite

\* The typed header field of a key.
TypedField(key) ==
  IF key = <<"d", "r", "a", "w", "_", "s", "t", "y", "l", "e">> THEN "draw_style"
  ELSE IF key = <<"c", "u", "s", "t", "o", "m", "_", "l", "e", "v", "e", "l", "_", "m", "u", "s", "i", "c">> THEN "custom_level_music"
  ELSE "custom_level_palette"

\* What the claim puts in header.unknown: the lines of an unrecognized key
\* and the lines of a recognized key with a value it does not accept.
ToUnknown(line) == IsUnknownLine(line) \/ Unacceptable(line)

\* C27: a header line with a recognized key and a value that the key does
\* not accept is in header.unknown of the parsed Level, verbatim and in
\* input order among the lines of header.unknown, and when no other line
\* of the header gives the key an accepted value the typed field of the
\* key is not set.
C27_UnacceptableValueIsUnknown ==
  (call.fn = "parseLevel" /\ "head" \in DOMAIN call /\ Returned(call)
     /\ call.result.ok) =>
    LET header == call.result.level.header
    IN /\ header.unknown = SelectSeq(call.head, ToUnknown)
       /\ \A u \in 1..Len(call.head) :
            (/\ Unacceptable(call.head[u])
             /\ \A v \in 1..Len(call.head) :
                  (~IsBlank(call.head[v])
                     /\ KindOf(call.head[v]) = KindOf(call.head[u]))
                    => Unacceptable(call.head[v]))
              => TypedField(KindOf(call.head[u])) \notin DOMAIN header

\* The boolean fields of a Block, Ref or Wall line: the name of the field
\* and the index of its token among the arguments.
BoolFields(kind) ==
  IF kind = "Block"
  THEN {<<"fillwithwalls", 9>>, <<"player", 10>>, <<"possessable", 11>>,
        <<"fliph", 13>>, <<"floatinspace", 14>>}
  ELSE IF kind = "Ref"
  THEN {<<"exitblock", 3>>, <<"infexit", 4>>, <<"infenter", 6>>,
        <<"player", 9>>, <<"possessable", 10>>, <<"fliph", 12>>,
        <<"floatinspace", 13>>}
  ELSE IF kind = "Wall"
  THEN {<<"player", 2>>, <<"possessable", 3>>}
  ELSE {}

\* Whether every boolean field of obj is 1 for the token "1" of the line and
\* 0 for every other token and for none.
LiteralFlags(obj, line) ==
  LET tokens == TokensFrom(line, 1)
      args == SubSeq(tokens, 2, Len(tokens))
  IN \A f \in BoolFields(obj.kind) :
       obj[f[1]] = IF Arg(args, f[2]) = <<<<"1">>>> THEN 1 ELSE 0

\* Whether the body is a root Block line and then lines of leaves one level
\* below it, so that line k + 1 gives child k of the root.
RootAndLeaves(body) ==
  /\ Len(body) >= 1
  /\ ~IsBlank(body[1]) /\ DepthOf(body[1]) = 0 /\ IsBlockLine(body[1])
  /\ \A k \in 2..Len(body) :
       ~IsBlank(body[k]) /\ DepthOf(body[k]) = 1 /\ IsLeafLine(body[k])

\* C28: a boolean field of a Block, Ref or Wall line is 1 in the parsed
\* object when its token is the text "1", and 0 for every other token and
\* when the line ends before the token.
C28_BooleanIsLiteralOne ==
  (call.fn = "parseLevel" /\ "head" \in DOMAIN call /\ Returned(call)
     /\ call.result.ok /\ RootAndLeaves(call.body)) =>
    LET root == call.result.level.roots[1]
    IN /\ LiteralFlags(root, call.body[1])
       /\ \A k \in 2..Len(call.body) :
            LiteralFlags(root.children[k - 1], call.body[k])


(***************************************************************************)
(* Blank lines in the body.                                                *)
(***************************************************************************)
\* The lines of a body that are not blank.
NotBlank(line) == ~IsBlank(line)
ContentOf(body) == SelectSeq(body, NotBlank)

\* C29: parseLevel of a text returns what it returns for the text without
\* the blank and whitespace-only lines of its body: when one of the two
\* parses the other parses, to an equal Level, so that a blank line closes
\* no open Block and raises no indentation error, whatever tabs it holds.
C29_BlankLinesSkipped ==
  (call.fn = "parseLevel" /\ "head" \in DOMAIN call /\ Returned(call)) =>
    LET plain == parseLevel(TextOf([call EXCEPT !.body = ContentOf(@)]))
    IN /\ plain.ok = call.result.ok
       /\ plain.ok => plain.level = call.result.level

\* A text parses whose body has an empty line and a line of three tabs
\* between a Block at depth 1 and the Floor below it.
C29_Witness ==
  /\ call.fn = "parseLevel" /\ "head" \in DOMAIN call /\ Returned(call)
  /\ call.result.ok
  /\ Len(call.body) = 5
  /\ DepthOf(call.body[2]) = 1 /\ IsBlockLine(call.body[2])
  /\ call.body[3] = <<"\t", "\t", "\t">>
  /\ call.body[4] = <<>>
  /\ DepthOf(call.body[5]) = 2 /\ IsLeafLine(call.body[5])
  /\ Len(call.result.level.roots[1].children[1].children) = 1


(***************************************************************************)
(* Imports that succeed.                                                   *)
(***************************************************************************)
\* Texts for the import text area beside ImportTexts: two roots, the first
\* with a Wall; one root under an empty header; and three texts without a
\* root: no body line, blank body lines, and no "#".
MoreImportTexts ==
  {<<"v", "e", "r", "s", "i", "o", "n", " ", "4", "\n", "#", "\n", "B", "l", "o", "c", "k", " ", "0", " ", "0", " ", "0", " ", "3", " ",
    "3", "\n", "\t", "W", "a", "l", "l", " ", "0", " ", "0", "\n", "B", "l", "o", "c", "k", " ", "1", " ", "1", " ", "1", " ", "2", " ", "2", "\n">>,
   <<"#", "\n", "B", "l", "o", "c", "k", " ", "2", " ", "2", " ", "7", " ", "1", " ", "1">>,
   <<"v", "e", "r", "s", "i", "o", "n", " ", "4", "\n", "#", "\n">>,
   <<"v", "e", "r", "s", "i", "o", "n", " ", "4", "\n", "#", "\n", "\n", "\t", "\n">>,
   <<"v", "e", "r", "s", "i", "o", "n", " ", "4", "\n", "s", "h", "e", "d", "\n">>}
ParsedTexts == [ioText \in ImportTexts \cup MoreImportTexts |-> parseLevel(ioText)]

\* C30: onImport of a text that parses returns the initial state with the
\* parsed Level as its Level, whatever the state was: past and future are
\* empty, so that undo and redo change nothing, selectedBlockPath is [0],
\* and the path resolves to a Block, the first root, since a text without a
\* root does not parse.
C30_ImportReplacesState ==
  \A ioText \in DOMAIN ParsedTexts :
    LET parsed == ParsedTexts[ioText]
        after == onImportParsed(state, parsed)
    IN IF parsed.ok
       THEN /\ Len(parsed.level.roots) >= 1
            /\ after = [createInitialState EXCEPT !.level = parsed.level]
            /\ after.level = parsed.level
            /\ after.history = [past |-> <<>>, future |-> <<>>]
            /\ undo(after) = after /\ redo(after) = after
            /\ after.selectedBlockPath = <<0>>
            /\ getBlockByPath(after.level, after.selectedBlockPath)
                 = parsed.level.roots[1]
            /\ getBlockByPath(after.level, after.selectedBlockPath).kind
                 = "Block"
       ELSE after.level = state.level

\* An import of a Level of two roots into a state with Levels to undo and to
\* redo, a path into a child Block, a tool chosen and a panned viewport;
\* three of the texts parse and three have no root.
C30_Witness ==
  /\ state.history.past # <<>>
  /\ state.history.future # <<>>
  /\ Len(state.selectedBlockPath) = 2
  /\ state.tool.kind # "Select"
  /\ state.viewport.panX # 0
  /\ Cardinality({t \in DOMAIN ParsedTexts : ParsedTexts[t].ok}) = 3
  /\ Cardinality({t \in DOMAIN ParsedTexts :
                    /\ ~ParsedTexts[t].ok
                    /\ ParsedTexts[t].error.message = "No root Block found"}) = 3
  /\ \E t \in DOMAIN ParsedTexts :
       /\ ParsedTexts[t].ok
       /\ Len(ParsedTexts[t].level.roots) = 2
       /\ onImportParsed(state, ParsedTexts[t]).history.past = <<>>
       /\ onImportParsed(state, ParsedTexts[t]).level # state.level


(***************************************************************************)
(* The editor on a grid of cells inside and outside the selected Block.    *)
(***************************************************************************)
\* Cells of mouse events: two inside the 9x9 root, the second of them right
\* of a 3x3 Block, and one left of, one above and one below every Block.
GridCells == {<<0, 0>>, <<3, 0>>, <<-1, 2>>, <<0, -1>>, <<2, 9>>}
GridTools == {[kind |-> "Select"], [kind |-> "Wall"], [kind |-> "Block"]}

MouseDownOnGrid ==
  /\ \E cell \in GridCells, erase \in BOOLEAN :
       /\ commitsEdit(state, cell[1], cell[2], erase)
            => Len(state.history.past) < MaxHistory
       /\ state' = applyToolAt(state, cell[1], cell[2], erase)
  /\ UNCHANGED <<call, heap, dragRef>>

SetToolOnGrid ==
  /\ \E tool \in GridTools : state' = setTool(state, tool)
  /\ UNCHANGED <<call, heap, dragRef>>

NextGrid ==
  \/ MouseDownOnGrid
  \/ Undo
  \/ Redo
  \/ SetToolOnGrid
  \/ RefButton
  \/ RefTarget
  \/ PickBlock
  \/ Up

SpecGrid == Init /\ [][NextGrid]_vars

\* Whether (x, y) is outside the Block: left of it, above it, right of it or
\* below it.
Outside(b, x, y) == x < 0 \/ y < 0 \/ x >= b.width \/ y >= b.height

\* Whether every child of b, leaf or Block, has its x and y inside b, and so
\* on below every child Block.
RECURSIVE ChildrenInside(_)
ChildrenInside(b) ==
  \A k \in 1..Len(b.children) :
    /\ ~Outside(b, b.children[k].x, b.children[k].y)
    /\ b.children[k].kind = "Block" => ChildrenInside(b.children[k])

LevelInside(level) ==
  \A r \in 1..Len(level.roots) : ChildrenInside(level.roots[r])

\* C31: applyToolAt at a cell outside the selected Block, with any tool,
\* erasing or not, leaves level, past and future as they are; and from the
\* empty level on, every leaf and every child Block of the current Level
\* and of the Levels in past and future has its x and y inside its parent.
C31_EditsStayInside ==
  /\ getBlockByPath(state.level, state.selectedBlockPath) # Null =>
       LET b == getBlockByPath(state.level, state.selectedBlockPath)
       IN \A cell \in GridCells \cup {<<b.width, 0>>, <<0, b.height>>,
                                      <<b.width - 1, b.height>>} :
            Outside(b, cell[1], cell[2]) =>
              \A tool \in Tools, erase \in BOOLEAN :
                Timeline(applyToolAt([state EXCEPT !.tool = tool],
                                     cell[1], cell[2], erase))
                  = Timeline(state)
  /\ LevelInside(state.level)
  /\ \A k \in 1..Len(state.history.past) : LevelInside(state.history.past[k])
  /\ \A k \in 1..Len(state.history.future) :
       LevelInside(state.history.future[k])

\* The user is in a 3x3 Block placed at (3, 0) of the root, which holds a
\* leaf; the Wall tool is chosen, cell (3, 0) is right of the Block, and a
\* click there changes nothing.
C31_Witness ==
  /\ Len(state.selectedBlockPath) = 2
  /\ getBlockByPath(state.level, state.selectedBlockPath) # Null
  /\ getBlockByPath(state.level, state.selectedBlockPath).x = 3
  /\ getBlockByPath(state.level, state.selectedBlockPath).width = 3
  /\ getBlockByPath(state.level, state.selectedBlockPath).children # <<>>
  /\ state.tool.kind = "Wall"
  /\ applyToolAt(state, 3, 0, FALSE) = state
  /\ applyToolAt(state, 0, 0, FALSE) # state

====
